---- MODULE Spec2Model ----
(***************************************************************************)
(* Session model (lib/auth), request gate (middleware/index), the API      *)
(* handlers of login and logout (pages/api/auth), the retry helper         *)
(* (lib/errors) and the components AuthGuard, LogoutButton, ScanResult and *)
(* QRScanner of the QR scanner registry.                                   *)
(*                                                                         *)
(* Time is in milliseconds, as Date.now() gives it.  A JavaScript value is *)
(* a tagged record; an object is the ordered list of its own properties.   *)
(* A text (a cookie value, a Set-Cookie header) is a sequence of tokens:   *)
(* a scalar JSON literal is one token, every other run of characters is a  *)
(* token of its own.                                                       *)
(***************************************************************************)
EXTENDS Integers, Sequences, FiniteSets, TLC

VARIABLES
    now,      \* the clock, what Date.now() returns
    req,      \* the request the gate is handling or handled last
    sess,     \* session model: the session created last
    wire,     \* session model: the Set-Cookie string serialized last
    out,      \* session model: the last query and its answer
    store,    \* the users table
    cb,       \* the login callbacks in flight, one per slot
    lo,       \* the logout request handled last
    ctx,      \* the requests the gate has in flight together, one per context
    rt,       \* the call of retryWithBackoff
    guard,    \* the AuthGuard mounted in the page
    lb,       \* the LogoutButton
    sr,       \* the ScanResult
    qs        \* the QRScanner

vars == <<now, req, sess, wire, out, store, cb, lo, ctx, rt, guard, lb, sr, qs>>

\* the state of the API handlers, and the state of the gate and the session model
api == <<store, cb, lo>>
core == <<req, sess, wire, out>>

\* the state of the gate's second context, the retry helper and the components
ui == <<ctx, rt, guard, lb, sr, qs>>

----------------------------------------------------------------------------
(* JavaScript values *)

Undefined == [t |-> "undefined"]
Null == [t |-> "null"]
Str(s) == [t |-> "string", s |-> s]
\* a string in the date-time format: seconds since the epoch and the .sss part
DateStr(sec, milli) == [t |-> "datestring", sec |-> sec, milli |-> milli]
Num(n) == [t |-> "number", n |-> n]
NaN == [t |-> "nan"]
\* an object: its own properties in insertion order, <<key, value>> each
Obj(e) == [t |-> "object", e |-> e]

\* ToBoolean(v)
Truthy(v) ==
    CASE v.t = "undefined" -> FALSE
      [] v.t = "null" -> FALSE
      [] v.t = "nan" -> FALSE
      [] v.t = "string" -> v.s # ""
      [] v.t = "number" -> v.n # 0
      [] OTHER -> TRUE

\* o[k] for a non-nullish o: the last own property named k, else undefined
Get(o, k) ==
    IF o.t # "object" THEN Undefined
    ELSE LET hit == {i \in 1..Len(o.e) : o.e[i][1] = k}
         IN  IF hit = {} THEN Undefined
             ELSE o.e[CHOOSE i \in hit : \A j \in hit : j <= i][2]

MsPerSecond == 1000

\* Date.prototype.toISOString of the instant ms
toISOString(ms) == DateStr(ms \div MsPerSecond, ms % MsPerSecond)

\* new Date(v).getTime(): a number, or NaN when v is no date
DateGetTime(v) ==
    CASE v.t = "datestring" -> Num(v.sec * MsPerSecond + v.milli)
      [] v.t = "number" -> Num(v.n)
      [] v.t = "null" -> Num(0)
      [] OTHER -> NaN

\* a < b on numbers: false when either is NaN
Less(a, b) == a.t = "number" /\ b.t = "number" /\ a.n < b.n

----------------------------------------------------------------------------
(* JSON *)

Ch(c) == [k |-> "ch", c |-> c]
Lit(v) == [k |-> "lit", v |-> v]

RECURSIVE JSONstringify(_)
RECURSIVE StringifyMembers(_, _, _)

\* the members of an object from entry i on; an undefined value is left out
StringifyMembers(e, i, first) ==
    IF i > Len(e) THEN <<>>
    ELSE IF e[i][2].t = "undefined" THEN StringifyMembers(e, i + 1, first)
    ELSE (IF first THEN <<>> ELSE <<Ch(",")>>)
         \o <<Lit(Str(e[i][1])), Ch(":")>> \o JSONstringify(e[i][2])
         \o StringifyMembers(e, i + 1, FALSE)

\* JSON.stringify(v) for a defined v
JSONstringify(v) ==
    IF v.t = "object"
    THEN <<Ch("{")>> \o StringifyMembers(v.e, 1, TRUE) \o <<Ch("}")>>
    ELSE IF v.t = "nan" THEN <<Lit(Null)>>
    ELSE <<Lit(v)>>

Fail == [ok |-> FALSE]

RECURSIVE ParseValue(_, _)
RECURSIVE ParseMembers(_, _, _)

\* a value starting at token i: [ok, v, next]
ParseValue(toks, i) ==
    IF i > Len(toks) THEN Fail
    ELSE IF toks[i].k = "lit" THEN [ok |-> TRUE, v |-> toks[i].v, next |-> i + 1]
    ELSE IF toks[i] # Ch("{") THEN Fail
    ELSE IF i + 1 <= Len(toks) /\ toks[i + 1] = Ch("}")
         THEN [ok |-> TRUE, v |-> Obj(<<>>), next |-> i + 2]
    ELSE ParseMembers(toks, i + 1, <<>>)

\* "key": value, then a comma and more members, or the closing brace
ParseMembers(toks, i, acc) ==
    IF i + 1 > Len(toks) THEN Fail
    ELSE IF ~(toks[i].k = "lit" /\ toks[i].v.t = "string") THEN Fail
    ELSE IF toks[i + 1] # Ch(":") THEN Fail
    ELSE LET r == ParseValue(toks, i + 2)
         IN  IF ~r.ok THEN Fail
             ELSE IF r.next > Len(toks) THEN Fail
             ELSE LET acc2 == Append(acc, <<toks[i].v.s, r.v>>)
                  IN  IF toks[r.next] = Ch("}")
                      THEN [ok |-> TRUE, v |-> Obj(acc2), next |-> r.next + 1]
                      ELSE IF toks[r.next] = Ch(",")
                      THEN ParseMembers(toks, r.next + 1, acc2)
                      ELSE Fail

\* JSON.parse(text): [ok |-> TRUE, v] or, for a SyntaxError, [ok |-> FALSE]
JSONparse(text) ==
    LET r == ParseValue(text, 1)
    IN  IF r.ok /\ r.next = Len(text) + 1 THEN [ok |-> TRUE, v |-> r.v] ELSE Fail

----------------------------------------------------------------------------
(* lib/auth: the session model *)

DefaultExpiresIn == 3600

\* createAuthSession(user, accessToken, expiresIn), Date.now() being dateNow
createAuthSession(user, accessToken, expiresIn, dateNow) ==
    LET expiresAt == toISOString(dateNow + expiresIn * MsPerSecond)
    IN  Obj(<< <<"user", user>>, <<"accessToken", accessToken>>,
               <<"expiresAt", expiresAt>> >>)

requiredFields == <<"id", "google_id", "email", "name", "created_at", "updated_at">>

\* validateUser(user)
validateUser(user) ==
    IF ~Truthy(user) \/ user.t # "object" THEN FALSE
    ELSE \A i \in 1..Len(requiredFields) :
            LET value == Get(user, requiredFields[i])
            IN  value # Null /\ value # Undefined /\ value # Str("")

\* isSessionValid(session) that also wants a complete identity
isSessionValidWithIdentity(session, dateNow) ==
    IF ~Truthy(session) \/ ~Truthy(Get(session, "expiresAt")) THEN FALSE
    ELSE LET expirationTime == DateGetTime(Get(session, "expiresAt"))
             currentTime == Num(dateNow)
         IN  Less(currentTime, expirationTime) /\ validateUser(Get(session, "user"))

\* isSessionValid(session) without the strict comparison
isSessionValidNotStrict(session, dateNow) ==
    IF ~Truthy(session) \/ ~Truthy(Get(session, "expiresAt")) THEN FALSE
    ELSE LET expirationTime == DateGetTime(Get(session, "expiresAt"))
             currentTime == Num(dateNow)
         IN  Less(currentTime, expirationTime) \/ currentTime = expirationTime

\* isSessionValid(session), Date.now() being dateNow
isSessionValid(session, dateNow) ==
    IF ~Truthy(session) \/ ~Truthy(Get(session, "expiresAt")) THEN FALSE
    ELSE LET expirationTime == DateGetTime(Get(session, "expiresAt"))
             currentTime == Num(dateNow)
         IN  Less(currentTime, expirationTime)

\* isSessionExpired(session)
isSessionExpired(session, dateNow) == ~isSessionValid(session, dateNow)

\* a - b on numbers: NaN when either is NaN
Minus(a, b) == IF a.t = "number" /\ b.t = "number" THEN Num(a.n - b.n) ELSE NaN

\* Math.floor(a / d) for a whole number a and a positive whole d
MathFloorOfQuotient(a, d) == IF a.t = "number" THEN Num(a.n \div d) ELSE NaN

\* Math.max(a, b): NaN when either is NaN
MathMax(a, b) ==
    IF a.t # "number" \/ b.t # "number" THEN NaN
    ELSE IF a.n >= b.n THEN a ELSE b

\* getSessionTimeRemaining(session), Date.now() being dateNow
getSessionTimeRemaining(session, dateNow) ==
    IF ~Truthy(session) \/ ~Truthy(Get(session, "expiresAt")) THEN Num(0)
    ELSE LET expirationTime == DateGetTime(Get(session, "expiresAt"))
             currentTime == Num(dateNow)
             remainingMs == Minus(expirationTime, currentTime)
         IN  MathMax(Num(0), MathFloorOfQuotient(remainingMs, MsPerSecond))

\* a completion: a returned value or a thrown error
Return(v) == [threw |-> FALSE, v |-> v]
Throw(e) == [threw |-> TRUE, v |-> Str(e)]

\* throw new <name>(message)
ThrowNew(name, message) ==
    [threw |-> TRUE, v |-> [t |-> "error", name |-> name, message |-> message]]

\* requireValidSession(session) that looks at the identity before the expiry
requireValidSessionIdentityFirst(session, dateNow) ==
    IF ~Truthy(session)
    THEN ThrowNew("AuthenticationError", "No session provided")
    ELSE IF ~validateUser(Get(session, "user"))
    THEN ThrowNew("AuthenticationError", "Invalid user data in session")
    ELSE IF ~isSessionValid(session, dateNow)
    THEN ThrowNew("AuthenticationError", "Session has expired")
    ELSE Return(Get(session, "user"))

\* requireValidSession(session), Date.now() being dateNow
requireValidSession(session, dateNow) ==
    IF ~Truthy(session)
    THEN ThrowNew("AuthenticationError", "No session provided")
    ELSE IF ~isSessionValid(session, dateNow)
    THEN ThrowNew("AuthenticationError", "Session has expired")
    ELSE IF ~validateUser(Get(session, "user"))
    THEN ThrowNew("AuthenticationError", "Invalid user data in session")
    ELSE Return(Get(session, "user"))

\* getUserFromSession(session) whose catch lets the error of a bad identity go
getUserFromSessionRethrowing(session, dateNow) ==
    LET r == requireValidSession(session, dateNow)
    IN  IF r.threw /\ r.v.message # "Invalid user data in session"
        THEN Return(Null) ELSE r

\* getUserFromSession(session), Date.now() being dateNow
getUserFromSession(session, dateNow) ==
    LET r == requireValidSession(session, dateNow)
    IN  IF r.threw THEN Return(Null) ELSE r

SessionMaxAge == 3600

\* getSessionCookieOptions(isProduction)
getSessionCookieOptions(isProduction) ==
    [httpOnly |-> TRUE, secure |-> isProduction, sameSite |-> "lax",
     maxAge |-> SessionMaxAge, path |-> "/"]

\* parseSessionFromCookie(cookieValue) with the test of validity inverted
parseSessionFromCookieInverted(cookieValue, dateNow) ==
    LET parsed == JSONparse(cookieValue)
    IN  IF ~parsed.ok THEN Return(Null)
        ELSE Return(IF isSessionValid(parsed.v, dateNow) THEN Null ELSE parsed.v)

\* parseSessionFromCookie(cookieValue), Date.now() being dateNow
parseSessionFromCookie(cookieValue, dateNow) ==
    LET parsed == JSONparse(cookieValue)
    IN  IF ~parsed.ok THEN Return(Null)
        ELSE Return(IF isSessionValid(parsed.v, dateNow) THEN parsed.v ELSE Null)

RECURSIVE Join(_, _)
\* parts.join(sep)
Join(parts, sep) ==
    IF Len(parts) = 0 THEN <<>>
    ELSE IF Len(parts) = 1 THEN parts[1]
    ELSE parts[1] \o <<Ch(sep)>> \o Join(Tail(parts), sep)

\* serializeSessionToCookie(session, isProduction) that marks every cookie
\* Secure
serializeSessionToCookieAlwaysSecure(session, isProduction) ==
    LET options == getSessionCookieOptions(isProduction)
        sessionJson == JSONstringify(session)
        cookieParts ==
            << <<Ch("session=")>> \o sessionJson >>
            \o (IF options.httpOnly THEN << <<Ch("HttpOnly")>> >> ELSE <<>>)
            \o << <<Ch("Secure")>> >>
            \o (IF options.sameSite # ""
                THEN << <<Ch("SameSite=" \o options.sameSite)>> >> ELSE <<>>)
            \o (IF options.maxAge # 0
                THEN << <<Ch("Max-Age=" \o ToString(options.maxAge))>> >> ELSE <<>>)
            \o (IF options.path # ""
                THEN << <<Ch("Path=" \o options.path)>> >> ELSE <<>>)
    IN  Join(cookieParts, "; ")

\* serializeSessionToCookie(session, isProduction)
serializeSessionToCookie(session, isProduction) ==
    LET options == getSessionCookieOptions(isProduction)
        sessionJson == JSONstringify(session)
        cookieParts ==
            << <<Ch("session=")>> \o sessionJson >>
            \o (IF options.httpOnly THEN << <<Ch("HttpOnly")>> >> ELSE <<>>)
            \o (IF options.secure THEN << <<Ch("Secure")>> >> ELSE <<>>)
            \o (IF options.sameSite # ""
                THEN << <<Ch("SameSite=" \o options.sameSite)>> >> ELSE <<>>)
            \o (IF options.maxAge # 0
                THEN << <<Ch("Max-Age=" \o ToString(options.maxAge))>> >> ELSE <<>>)
            \o (IF options.path # ""
                THEN << <<Ch("Path=" \o options.path)>> >> ELSE <<>>)
    IN  Join(cookieParts, "; ")

----------------------------------------------------------------------------
(* middleware/index: the request gate *)

\* context.cookies.get('session'): undefined, or a cookie with a value
NoCookie == [present |-> FALSE, value |-> <<>>]
Cookie(text) == [present |-> TRUE, value |-> text]

\* what the gate leaves in context.locals, what it did on the way (events, in
\* the order of the calls) and whether it threw before calling next()
Gate(session, middle, threw) ==
    [session |-> session,
     user |-> IF Truthy(session) /\ Truthy(Get(session, "user"))
              THEN Get(session, "user") ELSE Null,
     isAuthenticated |-> Truthy(session),
     events |-> <<"cookies.get">> \o middle
                \o (IF threw THEN <<>>
                    ELSE <<"locals.session", "locals.user",
                           "locals.isAuthenticated", "next">>),
     threw |-> threw]

\* onRequest that trusts whatever parses
onRequestTrusting(sessionCookie, dateNow) ==
    IF ~sessionCookie.present THEN Gate(Null, <<>>, FALSE)
    ELSE LET parsed == JSONparse(sessionCookie.value)
         IN  IF ~parsed.ok
             THEN Gate(Null, <<"JSON.parse", "console.error", "cookies.delete">>, FALSE)
             ELSE IF parsed.v # Null
             THEN Gate(parsed.v, <<"JSON.parse">>, FALSE)
             ELSE Gate(Null, <<"JSON.parse", "cookies.delete">>, FALSE)

\* onRequest that never clears the cookie of a session that is not valid
onRequestKeeping(sessionCookie, dateNow) ==
    IF ~sessionCookie.present THEN Gate(Null, <<>>, FALSE)
    ELSE LET parsed == JSONparse(sessionCookie.value)
         IN  IF ~parsed.ok
             THEN Gate(Null, <<"JSON.parse", "console.error", "cookies.delete">>, FALSE)
             ELSE IF isSessionValid(parsed.v, dateNow)
             THEN Gate(parsed.v, <<"JSON.parse", "isSessionValid">>, FALSE)
             ELSE Gate(Null, <<"JSON.parse", "isSessionValid">>, FALSE)

\* onRequest that turns away a request it cannot authenticate
onRequestRejecting(sessionCookie, dateNow) ==
    IF ~sessionCookie.present
    THEN [Gate(Null, <<>>, FALSE) EXCEPT !.events = <<"cookies.get">>]
    ELSE LET parsed == JSONparse(sessionCookie.value)
         IN  IF ~parsed.ok
             THEN Gate(Null, <<"JSON.parse", "console.error", "cookies.delete">>, FALSE)
             ELSE IF isSessionValid(parsed.v, dateNow)
             THEN Gate(parsed.v, <<"JSON.parse", "isSessionValid">>, FALSE)
             ELSE Gate(Null, <<"JSON.parse", "isSessionValid", "cookies.delete">>, FALSE)

\* onRequest without its try/catch
onRequestNoCatch(sessionCookie, dateNow) ==
    IF ~sessionCookie.present THEN Gate(Null, <<>>, FALSE)
    ELSE LET parsed == JSONparse(sessionCookie.value)
         IN  IF ~parsed.ok
             THEN Gate(Null, <<"JSON.parse">>, TRUE)
             ELSE IF isSessionValid(parsed.v, dateNow)
             THEN Gate(parsed.v, <<"JSON.parse", "isSessionValid">>, FALSE)
             ELSE Gate(Null, <<"JSON.parse", "isSessionValid", "cookies.delete">>, FALSE)

\* onRequest that logs every credential it clears
onRequestLogging(sessionCookie, dateNow) ==
    IF ~sessionCookie.present THEN Gate(Null, <<>>, FALSE)
    ELSE LET parsed == JSONparse(sessionCookie.value)
         IN  IF ~parsed.ok
             THEN Gate(Null, <<"JSON.parse", "console.error", "cookies.delete">>, FALSE)
             ELSE IF isSessionValid(parsed.v, dateNow)
             THEN Gate(parsed.v, <<"JSON.parse", "isSessionValid">>, FALSE)
             ELSE Gate(Null, <<"JSON.parse", "isSessionValid", "console.error",
                               "cookies.delete">>, FALSE)

\* the contexts of the requests the gate has in flight together
Contexts == {"x", "y"}

\* onRequest with its session variable declared once for the module: a
\* request that assigns no session finds the one an earlier request left
onRequestSharing(sessionCookie, dateNow) ==
    LET left == {ctx[k].gate.session : k \in {j \in Contexts : ctx[j].pc # "idle"}}
                \ {Null}
        session == IF left = {} THEN Null ELSE CHOOSE s \in left : TRUE
    IN  IF ~sessionCookie.present THEN Gate(session, <<>>, FALSE)
        ELSE LET parsed == JSONparse(sessionCookie.value)
             IN  IF ~parsed.ok
                 THEN Gate(session, <<"JSON.parse", "console.error", "cookies.delete">>,
                           FALSE)
                 ELSE IF isSessionValid(parsed.v, dateNow)
                 THEN Gate(parsed.v, <<"JSON.parse", "isSessionValid">>, FALSE)
                 ELSE Gate(session, <<"JSON.parse", "isSessionValid", "cookies.delete">>,
                           FALSE)

\* onRequest(context, next) up to and including its call of next(), Date.now()
\* being dateNow
onRequest(sessionCookie, dateNow) ==
    IF ~sessionCookie.present THEN Gate(Null, <<>>, FALSE)
    ELSE LET parsed == JSONparse(sessionCookie.value)
         IN  IF ~parsed.ok
             THEN \* catch (error)
                  Gate(Null, <<"JSON.parse", "console.error", "cookies.delete">>, FALSE)
             ELSE IF isSessionValid(parsed.v, dateNow)
             THEN Gate(parsed.v, <<"JSON.parse", "isSessionValid">>, FALSE)
             ELSE Gate(Null, <<"JSON.parse", "isSessionValid", "cookies.delete">>, FALSE)

----------------------------------------------------------------------------
(* db/migrations: the users table *)

\* the table: its rows in the order of their insertion, and the id the next
\* row gets (id UUID DEFAULT gen_random_uuid())
EmptyStore == [rows |-> <<>>, nextId |-> 1]

\* what a query resolves to: { data, error }
Result(data, error) == [data |-> data, error |-> error]

\* the store does not answer the query
Unavailable == Result(Null, Obj(<< <<"message", Str("Database connection failed")>> >>))

\* the rows with the given google_id
Matching(st, googleId) ==
    {i \in 1..Len(st.rows) : Get(st.rows[i], "google_id") = googleId}

\* from('users').select('*').eq('google_id', googleId).single()
storeSelect(st, googleId) ==
    LET hit == Matching(st, googleId)
    IN  IF Cardinality(hit) = 1
        THEN Result(st.rows[CHOOSE i \in hit : TRUE], Null)
        ELSE Result(Null, Obj(<< <<"code", Str("PGRST116")>> >>))

\* the insert into a table whose google_id column is not UNIQUE
storeInsertNotUnique(st, values, t) ==
    LET row == Obj(<< <<"id", Str("user-" \o ToString(st.nextId))>>,
                      <<"google_id", Get(values, "google_id")>>,
                      <<"email", Get(values, "email")>>,
                      <<"name", Get(values, "name")>>,
                      <<"avatar_url", Get(values, "avatar_url")>>,
                      <<"created_at", toISOString(t)>>,
                      <<"updated_at", toISOString(t)>> >>)
    IN  IF \E k \in {"google_id", "email", "name"} : Get(values, k) \in {Null, Undefined}
        THEN [store |-> st, result |-> Result(Null, Obj(<< <<"code", Str("23502")>> >>))]
        ELSE [store |-> [rows |-> Append(st.rows, row), nextId |-> st.nextId + 1],
              result |-> Result(row, Null)]

\* from('users').insert(values).select().single() at the instant t: the table
\* after it, and what the query resolves to
storeInsert(st, values, t) ==
    LET googleId == Get(values, "google_id")
        row == Obj(<< <<"id", Str("user-" \o ToString(st.nextId))>>,
                      <<"google_id", googleId>>,
                      <<"email", Get(values, "email")>>,
                      <<"name", Get(values, "name")>>,
                      <<"avatar_url", Get(values, "avatar_url")>>,
                      <<"created_at", toISOString(t)>>,
                      <<"updated_at", toISOString(t)>> >>)
    IN  IF \/ \E k \in {"google_id", "email", "name"} : Get(values, k) \in {Null, Undefined}
           \/ Matching(st, googleId) # {}
        THEN \* NOT NULL, UNIQUE
             [store |-> st, result |-> Result(Null, Obj(<< <<"code", Str("23505")>> >>))]
        ELSE [store |-> [rows |-> Append(st.rows, row), nextId |-> st.nextId + 1],
              result |-> Result(row, Null)]

\* the row with the columns of values set, and updated_at set by the trigger
Updated(row, values, t) ==
    Obj([i \in 1..Len(row.e) |->
            IF row.e[i][1] = "updated_at" THEN <<"updated_at", toISOString(t)>>
            ELSE IF Get(values, row.e[i][1]) # Undefined
            THEN <<row.e[i][1], Get(values, row.e[i][1])>>
            ELSE row.e[i]])

\* from('users').update(values).eq('google_id', googleId).select().single() at
\* the instant t
storeUpdate(st, values, googleId, t) ==
    LET hit == Matching(st, googleId)
        rows == [i \in 1..Len(st.rows) |->
                    IF i \in hit THEN Updated(st.rows[i], values, t) ELSE st.rows[i]]
    IN  IF Cardinality(hit) = 1
        THEN [store |-> [st EXCEPT !.rows = rows],
              result |-> Result(rows[CHOOSE i \in hit : TRUE], Null)]
        ELSE [store |-> [st EXCEPT !.rows = rows],
              result |-> Result(Null, Obj(<< <<"code", Str("PGRST116")>> >>))]

----------------------------------------------------------------------------
(* pages/api/auth/logout: the logout handler *)

\* the response redirect(location) builds, its Set-Cookie header not yet set
Response(location) == [location |-> location, setCookie |-> <<>>]
NoResponse == [location |-> "", setCookie |-> <<>>]

\* createClearSessionCookie()
createClearSessionCookie ==
    <<Ch("session=; Path=/; Expires=Thu, 01 Jan 1970 00:00:00 GMT; HttpOnly; SameSite=Lax")>>

\* POST({ redirect }) of logout; redirectThrows[i] says whether the i-th call
\* of redirect throws.  The handler returns a response or throws
logoutPOST(redirectThrows) ==
    IF ~redirectThrows[1]
    THEN [threw |-> FALSE,
          response |-> [Response("/?logout=success") EXCEPT !.setCookie =
              <<Ch("session=; Path=/; Expires=Thu, 01 Jan 1970 00:00:00 GMT; HttpOnly; SameSite=Lax")>>],
          events |-> <<"redirect", "headers.set">>]
    ELSE \* catch (error)
         IF ~redirectThrows[2]
         THEN [threw |-> FALSE,
               response |-> [Response("/?error=logout_failed") EXCEPT !.setCookie =
                   <<Ch("session=; Path=/; Expires=Thu, 01 Jan 1970 00:00:00 GMT; HttpOnly; SameSite=Lax")>>],
               events |-> <<"redirect", "console.error", "redirect", "headers.set">>]
         ELSE [threw |-> TRUE, response |-> NoResponse,
               events |-> <<"redirect", "console.error", "redirect">>]

----------------------------------------------------------------------------
(* pages/api/auth/google: the login callback *)

\* a || b
Or(a, b) == IF Truthy(a) THEN a ELSE b

\* `${value}` of a boolean
BooleanToString(b) == IF b THEN "true" ELSE "false"

\* the time to live the callback creates its session with
LoginExpiresIn == 3600

\* the catch block with every error mapped to server_error
catchPOSTUnmapped(errorName) == "/?error=server_error"

\* the catch block: where it redirects for the error caught
catchPOST(errorName) ==
    IF errorName = "ValidationError" THEN "/?error=invalid_request"
    ELSE IF errorName = "AuthenticationError" THEN "/?error=auth_failed"
    ELSE "/?error=server_error"

\* the callback c ends with redirect(location) after doing events
Finish(c, location, events) ==
    [c EXCEPT !.pc = "done", !.response = Response(location), !.events = @ \o events]

\* the callback c throws an error of the given class after doing events
Failed(c, errorName, events) ==
    Finish(c, catchPOST(errorName), events \o <<"console.error", "redirect">>)

\* Object.entries(cookieOptions).map(([key, value]) => `${key}=${value}`)
cookieOptionEntries(cookieOptions) ==
    << <<Ch("httpOnly=" \o BooleanToString(cookieOptions.httpOnly))>>,
       <<Ch("secure=" \o BooleanToString(cookieOptions.secure))>>,
       <<Ch("sameSite=" \o cookieOptions.sameSite)>>,
       <<Ch("maxAge=" \o ToString(cookieOptions.maxAge))>>,
       <<Ch("path=" \o cookieOptions.path)>> >>

\* lines 128-150 with the cookie holding the identity and not the session
SucceedCookieOfUser(c, user, t) ==
    LET session == createAuthSession(user, Or(Get(c.tokens, "access_token"), Str("")),
                                     LoginExpiresIn, t)
        cookieOptions == getSessionCookieOptions(c.isProduction)
        setCookie == <<Ch("session=")>> \o JSONstringify(user) \o <<Ch("; ")>>
                     \o Join(cookieOptionEntries(cookieOptions), "; ")
    IN  [c EXCEPT !.pc = "done", !.user = user, !.session = session,
                  !.response = [Response("/?auth=success") EXCEPT !.setCookie = setCookie],
                  !.events = @ \o <<"createAuthSession", "getSessionCookieOptions",
                                    "redirect", "headers.set">>]

\* lines 128-150: the session is created around user, the cookie is set and
\* the callback ends with the success redirect
Succeed(c, user, t) ==
    LET session == createAuthSession(user, Or(Get(c.tokens, "access_token"), Str("")),
                                     LoginExpiresIn, t)
        cookieOptions == getSessionCookieOptions(c.isProduction)
        setCookie == <<Ch("session=")>> \o JSONstringify(session) \o <<Ch("; ")>>
                     \o Join(cookieOptionEntries(cookieOptions), "; ")
    IN  [c EXCEPT !.pc = "done", !.user = user, !.session = session,
                  !.response = [Response("/?auth=success") EXCEPT !.setCookie = setCookie],
                  !.events = @ \o <<"createAuthSession", "getSessionCookieOptions",
                                    "redirect", "headers.set">>]

\* the values written for the profile googleUser
profileValues(googleUser) ==
    << <<"email", Get(googleUser, "email")>>, <<"name", Get(googleUser, "name")>>,
       <<"avatar_url", Or(Get(googleUser, "picture"), Null)>> >>

\* a callback that has not begun
IdleCallback ==
    [pc |-> "idle", n |-> 0, url |-> [code |-> Null, error |-> Null],
     isProduction |-> FALSE, rejected |-> "", tokens |-> Undefined,
     googleUser |-> Undefined, stored |-> FALSE, existingUser |-> Null,
     values |-> Undefined, write |-> Result(Null, Null), user |-> Undefined,
     session |-> Undefined, response |-> NoResponse, events |-> <<>>]

\* lines 48-64: POST begins; url holds the code and error parameters
begin(c0, url, isProduction) ==
    LET c == [IdleCallback EXCEPT !.n = c0.n + 1, !.url = url,
                                  !.isProduction = isProduction]
    IN  IF Truthy(url.error)
        THEN Finish(c, "/?error=oauth_denied", <<"console.error", "redirect">>)
        ELSE IF ~Truthy(url.code) THEN Failed(c, "ValidationError", <<>>)
        ELSE [c EXCEPT !.pc = "getToken", !.events = <<"getToken">>]

\* lines 64-69: getToken(code) resolves to r or rejects
afterGetToken(c, r) ==
    IF ~r.ok THEN Failed([c EXCEPT !.rejected = "getToken"], "Error", <<>>)
    ELSE [c EXCEPT !.pc = "userinfo", !.tokens = r.tokens,
                   !.events = @ \o <<"setCredentials", "userinfo.get">>]

\* lines 69-83: userinfo.get() resolves to r or rejects
afterUserinfo(c, r) ==
    IF ~r.ok THEN Failed([c EXCEPT !.rejected = "userinfo.get"], "Error", <<>>)
    ELSE LET googleUser == r.data
             d == [c EXCEPT !.googleUser = googleUser]
         IN  IF \/ ~Truthy(Get(googleUser, "id"))
                \/ ~Truthy(Get(googleUser, "email"))
                \/ ~Truthy(Get(googleUser, "name"))
             THEN Failed(d, "AuthenticationError", <<>>)
             ELSE [d EXCEPT !.pc = "select", !.events = @ \o <<"createClient", "select">>]

\* lines 79-118: the lookup resolves to r at the instant t; the update or the
\* insert is sent
afterSelect(c, r, t) ==
    LET existingUser == r.data
        findError == r.error
    IN  IF Truthy(existingUser) /\ ~Truthy(findError)
        THEN [c EXCEPT !.pc = "update", !.existingUser = existingUser,
                       !.events = @ \o <<"update">>,
                       !.values = Obj(profileValues(c.googleUser)
                                      \o << <<"updated_at", toISOString(t)>> >>)]
        ELSE [c EXCEPT !.pc = "insert", !.events = @ \o <<"insert">>,
                       !.values = Obj(<< <<"google_id", Get(c.googleUser, "id")>> >>
                                      \o profileValues(c.googleUser))]

\* lines 101-150 with the session created around the profile when the write
\* failed
afterWriteTrusting(c, r, t) ==
    IF Truthy(r.error) \/ ~Truthy(r.data)
    THEN Succeed([c EXCEPT !.write = r], c.googleUser, t)
    ELSE Succeed([c EXCEPT !.write = r], r.data, t)

\* lines 101-150: the update or the insert resolves to r at the instant t
afterWrite(c, r, t) ==
    IF Truthy(r.error) \/ ~Truthy(r.data)
    THEN Failed([c EXCEPT !.write = r], "AuthenticationError", <<"console.error">>)
    ELSE Succeed([c EXCEPT !.write = r], r.data, t)

----------------------------------------------------------------------------
(* components/AuthGuard: the guard of the pages, and useAuth *)

\* the value of the cookie session in a cookie string session=<value>; ...:
\* what stands between the name and the first separator.  No token of a
\* value has a ; or a = in it
Payload(text) ==
    LET seps == {i \in 1..Len(text) : text[i] = Ch("; ")}
        end == IF seps = {} THEN Len(text) + 1
               ELSE CHOOSE i \in seps : \A j \in seps : i <= j
    IN  IF Len(text) > 0 /\ text[1] = Ch("session=") THEN SubSeq(text, 2, end - 1)
        ELSE <<>>

\* decodeURIComponent(text): a % that begins no escape sequence is a URIError;
\* a text without % is left as it is
decodeURIComponent(text) ==
    IF \E i \in 1..Len(text) : text[i] = Ch("%")
    THEN ThrowNew("URIError", "URI malformed")
    ELSE Return(text)

\* the state of the guard: { user, loading, error }
AuthState(user, loading, error) == [user |-> user, loading |-> loading, error |-> error]

\* checkAuth(): the state it sets, document.cookie being documentCookie and
\* Date.now() being dateNow
checkAuth(documentCookie, dateNow) ==
    LET sessionCookie == Payload(documentCookie)
    IN  IF sessionCookie = <<>> THEN AuthState(Null, FALSE, Null)
        ELSE LET decoded == decodeURIComponent(sessionCookie)
             IN  IF decoded.threw
                 THEN \* catch (error)
                      AuthState(Null, FALSE, Str(decoded.v.message))
                 ELSE LET session == parseSessionFromCookie(decoded.v, dateNow).v
                          user == getUserFromSession(session, dateNow).v
                      IN  AuthState(user, FALSE, Null)

\* what AuthGuard returns: the spinner, the error state, the fallback, the
\* login prompt or the children
render(props, authState) ==
    IF authState.loading THEN "spinner"
    ELSE IF Truthy(authState.error) THEN "error"
    ELSE IF props.requireAuth /\ ~Truthy(authState.user)
    THEN IF props.fallback THEN "fallback" ELSE "prompt"
    ELSE "children"

\* the effect of lines 401-405: window.location.href after it
redirectEffect(props, authState, href) ==
    IF ~authState.loading /\ ~Truthy(authState.user) /\ props.requireAuth
       /\ Truthy(props.redirectTo)
    THEN props.redirectTo.s ELSE href

\* no guard mounted
NoGuard ==
    [pc |-> "unmounted",
     props |-> [requireAuth |-> TRUE, redirectTo |-> Undefined, fallback |-> FALSE],
     documentCookie |-> <<>>, at |-> 0,
     authState |-> AuthState(Null, TRUE, Null),
     next |-> AuthState(Null, TRUE, Null),
     rendered |-> <<>>, href |-> ""]

\* the guard is mounted: the first render, then the effects, checkAuth()
\* running to its end and its setAuthState waiting for the next render
mount(props, documentCookie, dateNow) ==
    LET authState == AuthState(Null, TRUE, Null)
    IN  [pc |-> "set", props |-> props, documentCookie |-> documentCookie,
         at |-> dateNow, authState |-> authState,
         next |-> checkAuth(documentCookie, dateNow),
         rendered |-> <<render(props, authState)>>,
         href |-> redirectEffect(props, authState, "")]

\* the state set is rendered
rerender(g) ==
    [g EXCEPT !.pc = "rendered", !.authState = g.next,
              !.rendered = Append(@, render(g.props, g.next))]

\* the effects after that render
effects(g) ==
    [g EXCEPT !.pc = "settled", !.href = redirectEffect(g.props, g.authState, @)]

----------------------------------------------------------------------------
(* components/LogoutButton *)

\* the button before any click: the state isLoggingOut, its value in the
\* render committed last (what the handler and the disabled attribute see),
\* the clicks so far, one run for every call of handleLogout that got past
\* its first line, and window.location.href
NoLogoutButton ==
    [isLoggingOut |-> FALSE, shown |-> FALSE, clicks |-> 0, runs |-> <<>>, href |-> ""]

\* a call of handleLogout that has sent its request
LogoutRun ==
    [pc |-> "fetch", ok |-> "none", events |-> <<"onLogoutStart", "fetch">>]

\* a click on the button: handleLogout to its first await, and the render of
\* the state it set, which React does before the next event
handleLogout(b) ==
    IF b.shown
    THEN \* the button is disabled; if (isLoggingOut) return
         [b EXCEPT !.clicks = @ + 1]
    ELSE [b EXCEPT !.clicks = @ + 1, !.isLoggingOut = TRUE, !.shown = TRUE,
                   !.runs = Append(@, LogoutRun)]

\* the catch and the finally of the run i
logoutFailed(b, i, ok) ==
    [b EXCEPT !.isLoggingOut = FALSE,
              !.runs[i] = [pc |-> "done", ok |-> ok,
                           events |-> @.events \o <<"console.error", "onLogoutError">>]]

\* handleLogout that calls onLogoutComplete before it looks at response.ok
afterFetchCompletingFirst(b, i, ok) ==
    IF ok = "rejected" THEN logoutFailed(b, i, ok)
    ELSE IF ok = "not ok"
    THEN [b EXCEPT !.runs[i] = [pc |-> "json", ok |-> ok,
                                events |-> @.events \o <<"onLogoutComplete", "json">>]]
    ELSE [b EXCEPT !.isLoggingOut = FALSE, !.href = "/",
                   !.runs[i] = [pc |-> "done", ok |-> ok,
                                events |-> @.events \o <<"onLogoutComplete", "href">>]]

\* await fetch(...) of the run i settles: the response is ok, or not ok, or
\* the request is rejected
afterFetch(b, i, ok) ==
    IF ok = "rejected" THEN logoutFailed(b, i, ok)
    ELSE IF ok = "not ok"
    THEN [b EXCEPT !.runs[i] = [pc |-> "json", ok |-> ok,
                                events |-> @.events \o <<"json">>]]
    ELSE [b EXCEPT !.isLoggingOut = FALSE, !.href = "/",
                   !.runs[i] = [pc |-> "done", ok |-> ok,
                                events |-> @.events \o <<"onLogoutComplete", "href">>]]

\* await response.json().catch(() => ({})) of the run i settles
afterJson(b, i) == logoutFailed(b, i, b.runs[i].ok)

----------------------------------------------------------------------------
(* components/ScanResult *)

\* isSaving, isSaved and saveError
SaveState(isSaving, isSaved, saveError) ==
    [isSaving |-> isSaving, isSaved |-> isSaved, saveError |-> saveError]

\* no result of a scan displayed
NoScanResult ==
    [pc |-> "unmounted", props |-> [content |-> "", scanType |-> "qr", format |-> Undefined],
     state |-> SaveState(FALSE, FALSE, Null), shown |-> SaveState(FALSE, FALSE, Null),
     clicks |-> 0, runs |-> <<>>]

\* the result of a scan as it is first displayed: its props, its state, the
\* state of the render committed last, the clicks so far, and one run for
\* every call of onSave
ScanResult(props) == [NoScanResult EXCEPT !.pc = "mounted", !.props = props]

\* the buttons that call handleSave: Save, disabled while saving and when
\* saved, and Try again, rendered with the error
SaveButtons == {"Save", "Try again"}
Rendered(r, button) == button = "Save" \/ Truthy(r.shown.saveError)
Disabled(r, button) == button = "Save" /\ (r.shown.isSaving \/ r.shown.isSaved)

\* handleSave to its await, and the render of the state it set, which React
\* does before the next event
handleSave(r) ==
    IF r.shown.isSaved \/ r.shown.isSaving THEN r
    ELSE LET state == SaveState(TRUE, r.state.isSaved, Null)
         IN  [r EXCEPT !.state = state, !.shown = state,
                       !.runs = Append(@, [pc |-> "onSave", ok |-> "none",
                                           scanData |-> r.props])]

\* a click on a button: a disabled button calls no handler
click(r, button) ==
    IF Disabled(r, button) THEN [r EXCEPT !.clicks = @ + 1]
    ELSE [handleSave(r) EXCEPT !.clicks = @ + 1]

\* handleSave that marks the scan saved whatever onSave settled to
afterSaveMarkingSaved(r, i, o) ==
    [r EXCEPT !.runs[i].pc = "done", !.runs[i].ok = o.ok,
              !.state = SaveState(FALSE, TRUE,
                                  IF o.ok = "resolved" THEN r.state.saveError
                                  ELSE Or(o.message, Str("Failed to save scan")))]

\* await onSave(...) of the run i settles: resolved, or rejected with an
\* Error that has a message, or with something else
afterSave(r, i, o) ==
    IF o.ok = "resolved"
    THEN [r EXCEPT !.runs[i].pc = "done", !.runs[i].ok = o.ok,
                   !.state = SaveState(FALSE, TRUE, r.state.saveError)]
    ELSE \* catch (error)
         [r EXCEPT !.runs[i].pc = "done", !.runs[i].ok = o.ok,
                   !.state = SaveState(FALSE, r.state.isSaved,
                                       IF o.isError THEN o.message
                                       ELSE Str("Failed to save scan"))]

----------------------------------------------------------------------------
(* components/QRScanner *)

\* a text the scanner reads: what it is after trim(), the prefix it starts
\* with among those the component looks for, how many digits it has when it
\* is all digits, and its length
Scanned(content, prefix, digits, length) ==
    [content |-> content, prefix |-> prefix, digits |-> digits, length |-> length]

\* determineScanType(content)
determineScanType(text) ==
    IF text.prefix \in {"http", "https", "mailto:", "tel:", "wifi:"} \/ text.length > 50
    THEN "qr"
    ELSE IF 8 <= text.digits /\ text.digits <= 14 THEN "barcode"
    ELSE "qr"

\* determineScanFormat(content, scanType)
determineScanFormat(text, scanType) ==
    IF scanType = "barcode"
    THEN IF text.digits = 12 THEN Str("UPC-A")
         ELSE IF text.digits = 13 THEN Str("EAN-13")
         ELSE IF text.digits = 8 THEN Str("EAN-8")
         ELSE Str("Code128")
    ELSE IF scanType = "qr"
    THEN IF text.prefix \in {"http", "https"} THEN Str("URL")
         ELSE IF text.prefix = "mailto:" THEN Str("Email")
         ELSE IF text.prefix = "tel:" THEN Str("Phone")
         ELSE IF text.prefix = "wifi:" THEN Str("WiFi")
         ELSE Str("Text")
    ELSE Undefined

\* the state of the component as useState first gives it
ScannerState ==
    [hasPermission |-> FALSE, isScanning |-> FALSE, scanResult |-> Null, error |-> Null,
     torchEnabled |-> FALSE, torchSupported |-> FALSE]

\* the scanner as it is mounted: its state, the state of the render committed
\* last (what is on the page, and what toggleTorch closes over), and the
\* asynchronous calls that have not come to their end
NoQRScanner == [state |-> ScannerState, shown |-> ScannerState, pending |-> <<>>]

\* handlePermissionGranted(), handlePermissionDenied()
handlePermissionGranted(st) == [st EXCEPT !.hasPermission = TRUE, !.error = Null]
handlePermissionDenied(st) ==
    [st EXCEPT !.hasPermission = FALSE,
               !.error = Str("Camera permission is required to scan QR codes and barcodes")]

\* handleStartScanning(), handleStopScanning()
handleStartScanning(st) ==
    [st EXCEPT !.isScanning = TRUE, !.scanResult = Null, !.error = Null]
handleStopScanning(st) == [st EXCEPT !.isScanning = FALSE, !.torchEnabled = FALSE]

\* handleScanSuccess(result); a blank result has the content ""
handleScanSuccess(st, text) ==
    IF text.content = "" THEN st
    ELSE LET scanType == determineScanType(text)
             format == determineScanFormat(text, scanType)
         IN  [st EXCEPT !.scanResult = [content |-> text.content, scanType |-> scanType,
                                        format |-> format],
                        !.isScanning = FALSE, !.torchEnabled = FALSE]

\* handleScanError(error); expected says whether it is a NotFoundError or a
\* 'No QR code found'
handleScanError(st, expected) ==
    IF expected THEN st
    ELSE [st EXCEPT !.error = Str("Scanning failed. Please try again or check your camera.")]

\* handleRescan(), handleCloseScanResult()
handleRescan(st) == [st EXCEPT !.scanResult = Null, !.isScanning = TRUE, !.error = Null]
handleCloseScanResult(st) == [st EXCEPT !.scanResult = Null]

\* what is on the page: the permission request, the result of a scan, or the
\* scanner with its buttons
Page(st) ==
    IF ~st.hasPermission THEN "permissions"
    ELSE IF st.scanResult # Null THEN "result"
    ELSE "scanner"

\* the state is rendered, and the effect of lines 32-36 runs when its
\* dependencies changed: checkTorchSupport() to its await
commit(q, state) ==
    LET changed == <<state.hasPermission, state.isScanning>>
                   # <<q.shown.hasPermission, q.shown.isScanning>>
    IN  [state |-> state, shown |-> state,
         pending |-> IF changed /\ state.hasPermission /\ state.isScanning
                     THEN Append(q.pending, [kind |-> "checkTorchSupport",
                                             pc |-> "getUserMedia", torchEnabled |-> FALSE])
                     ELSE q.pending]

\* a click on the flashlight button: toggleTorch() of the render on the page,
\* to its first await
toggleTorch(q) ==
    IF ~q.shown.torchSupported THEN q
    ELSE [q EXCEPT !.pending = Append(@, [kind |-> "toggleTorch", pc |-> "getUserMedia",
                                          torchEnabled |-> q.shown.torchEnabled])]

\* q.pending without its i-th call
Without(q, i) ==
    [q EXCEPT !.pending = SubSeq(@, 1, i - 1) \o SubSeq(@, i + 1, Len(@))]

\* an await of the i-th pending call settles: ok says whether it resolved,
\* torch what capabilities.torch is
afterAwait(q, i, ok, torch) ==
    LET call == q.pending[i]
    IN  IF call.kind = "checkTorchSupport"
        THEN IF ~ok THEN [Without(q, i) EXCEPT !.state.torchSupported = FALSE]
             ELSE IF torch THEN [Without(q, i) EXCEPT !.state.torchSupported = TRUE]
             ELSE Without(q, i)
        ELSE IF ~ok THEN \* catch (error)
                         Without(q, i)
        ELSE IF call.pc = "getUserMedia"
        THEN [q EXCEPT !.pending[i].pc = "applyConstraints"]
        ELSE [Without(q, i) EXCEPT !.state.torchEnabled = ~call.torchEnabled]

----------------------------------------------------------------------------
(* lib/errors: the retry helper *)

\* an error of the given class, thrown by the n-th invocation of fn
Error(class, n) == [class |-> class, n |-> n]

\* isRetryableError(error)
isRetryableError(error) == error.class \in {"NetworkError", "DatabaseError", "ScanError"}

\* Math.pow(2, n) for a natural n
RECURSIVE MathPow2(_)
MathPow2(n) == IF n <= 0 THEN 1 ELSE 2 * MathPow2(n - 1)

\* the longest delay, in milliseconds
maxDelay == 30000

\* getRetryDelay without the 30 seconds' cap
getRetryDelayUncapped(attempt, baseDelay) == baseDelay * MathPow2(attempt - 1)

\* getRetryDelay(attempt, baseDelay)
getRetryDelay(attempt, baseDelay) ==
    LET delay == baseDelay * MathPow2(attempt - 1)
    IN  IF delay < maxDelay THEN delay ELSE maxDelay

\* what the promise of retryWithBackoff settles to
Resolved(value) == [threw |-> FALSE, v |-> value]
Rejected(error) == [threw |-> TRUE, v |-> error]

\* no call of retryWithBackoff yet
NoRetry ==
    [pc |-> "idle", maxAttempts |-> 0, baseDelay |-> 0, attempt |-> 0,
     outcomes |-> <<>>, invoked |-> 0, delays |-> <<>>, lastError |-> Undefined,
     settled |-> Undefined, events |-> <<>>]

\* the head of the for loop: fn is invoked, or the loop is left and lastError
\* thrown
loopHead(r) ==
    IF r.attempt <= r.maxAttempts
    THEN [r EXCEPT !.pc = "fn", !.invoked = @ + 1, !.events = @ \o <<"fn">>]
    ELSE [r EXCEPT !.pc = "rejected", !.settled = Rejected(r.lastError)]

\* retryWithBackoff(fn, maxAttempts, baseDelay) is called
retryWithBackoff(maxAttempts, baseDelay) ==
    loopHead([NoRetry EXCEPT !.maxAttempts = maxAttempts, !.baseDelay = baseDelay,
                             !.attempt = 1])

\* await fn() settles: o.ok says whether it resolved, to o.value, or rejected,
\* with o.error
afterFn(r, o) ==
    LET q == [r EXCEPT !.outcomes = Append(@, o)]
    IN  IF o.ok THEN [q EXCEPT !.pc = "resolved", !.settled = Resolved(o.value)]
        ELSE IF r.attempt = r.maxAttempts \/ ~isRetryableError(o.error)
        THEN [q EXCEPT !.pc = "rejected", !.lastError = o.error,
                       !.settled = Rejected(o.error), !.events = @ \o <<"logError">>]
        ELSE [q EXCEPT !.pc = "timer", !.lastError = o.error,
                       !.delays = Append(@, getRetryDelay(r.attempt, r.baseDelay)),
                       !.events = @ \o <<"logError", "setTimeout">>]

\* the timer fires: attempt++ and the head of the loop
afterTimeout(r) == loopHead([r EXCEPT !.attempt = @ + 1])

----------------------------------------------------------------------------
(* The inputs *)

\* the first reading of the clock
StartNow == 5000

\* the clock readings, as offsets from the first: around one second and
\* around one hour
Offsets == {0, 999, 1000, 3600000, 3600999}
Instants == {StartNow + d : d \in Offsets}

\* the instants at which sessions are created
CreationInstants == {StartNow, StartNow + 999}

\* the times to live a session is created with, in seconds
Ttls == {DefaultExpiresIn, 1, 0, -1}

mockUser ==
    Obj(<< <<"id", Str("user-123")>>, <<"google_id", Str("123456789")>>,
           <<"email", Str("test@example.com")>>, <<"name", Str("Test User")>>,
           <<"avatar_url", Null>>, <<"created_at", Str("2024-01-01T00:00:00Z")>>,
           <<"updated_at", Str("2024-01-01T00:00:00Z")>> >>)

\* mockUser with the property k set to v
With(user, k, v) ==
    Obj([i \in 1..Len(user.e) |->
            IF user.e[i][1] = k THEN <<k, v>> ELSE user.e[i]])

\* the identities a session is created around: complete, with an empty
\* email, and none
Users == {mockUser, With(mockUser, "email", Str("")), Undefined}

\* every session created, with the instant of its creation
Created ==
    {[at |-> t0, ttl |-> ttl,
      session |-> createAuthSession(u, Str("token123"), ttl, t0)] :
        u \in Users, ttl \in Ttls, t0 \in CreationInstants}

\* session-like values nobody created: no expiry, an expiry that is no date,
\* an empty, a null and a numeric expiry, an expiry and nothing else
OddSessions ==
    {Obj(<< <<"user", mockUser>>, <<"accessToken", Str("token123")>> >>),
     Obj(<< <<"user", mockUser>>, <<"expiresAt", Str("not-a-date")>> >>),
     Obj(<< <<"user", mockUser>>, <<"expiresAt", Str("")>> >>),
     Obj(<< <<"user", mockUser>>, <<"expiresAt", Null>> >>),
     Obj(<< <<"user", mockUser>>, <<"expiresAt", Num(StartNow + 1000)>> >>),
     Obj(<< <<"user", mockUser>>, <<"expiresAt", Num(0)>> >>),
     Obj(<< <<"expiresAt", toISOString(StartNow + 1000)>> >>),
     Obj(<< <<"user", Obj(<< <<"id", Str("1")>>, <<"name", Str("Test")>> >>)>>,
            <<"accessToken", Str("token")>>,
            <<"expiresAt", toISOString(StartNow + 3600000)>> >>),
     Obj(<<>>)}

\* JSON that is no object, and text that is no JSON
OddTexts ==
    {<<>>, <<Ch("invalid-json")>>, <<Lit(Null)>>, <<Lit(Num(42))>>,
     <<Lit(Str("abc"))>>, <<Ch("{")>>, <<Ch("{"), Lit(Str("user")), Ch("}")>>}

\* the longest of the short prefixes a payload is cut to
MaxCut == 4

\* the lengths a payload is cut to: a few tokens, or all but the last
CutLengths(text) == ((1..MaxCut) \cup {Len(text) - 1}) \cap (1..(Len(text) - 1))
Cuts(text) == {SubSeq(text, 1, n) : n \in CutLengths(text)}

\* the cookie values that do not depend on the clock
OddCookieValues ==
    {JSONstringify(x) : x \in OddSessions} \cup OddTexts
    \cup UNION {Cuts(JSONstringify(c.session)) : c \in {x \in Created : x.at = StartNow}}

\* the payload of every session created, with the instant of its creation
CreatedCookieValues == {[at |-> c.at, text |-> JSONstringify(c.session)] : c \in Created}

\* the values of the session cookie a client may present at the instant t
CookieValues(t) ==
    {c.text : c \in {x \in CreatedCookieValues : x.at <= t}} \cup OddCookieValues

\* what the rest of the chain answers
Responses == {200, 201}

NoRequest ==
    [pc |-> "idle", cookie |-> NoCookie, at |-> 0,
     gate |-> [session |-> Null, user |-> Null, isAuthenticated |-> FALSE,
               events |-> <<>>, threw |-> FALSE],
     prior |-> "none", response |-> 0, returned |-> 0]

\* the slots login callbacks run in, and how many requests the API handlers
\* take in all
Slots == {"a", "b"}
MaxRequests == 3

\* the code and error parameters of the callback's URL
Urls ==
    {[code |-> Str("mock-auth-code"), error |-> Null],
     [code |-> Null, error |-> Str("access_denied")],
     [code |-> Str("mock-auth-code"), error |-> Str("access_denied")],
     [code |-> Null, error |-> Null]}

\* what getToken resolves to, or its rejection
TokenResults ==
    {[ok |-> TRUE, tokens |-> Obj(<< <<"access_token", Str("mock-access-token")>> >>)],
     [ok |-> TRUE, tokens |-> Obj(<<>>)],
     [ok |-> FALSE]}

\* the profiles of the provider: complete with and without a picture, and
\* with the email and name, the id, and the name missing
Profiles ==
    {Obj(<< <<"id", Str("google-123")>>, <<"email", Str("test@example.com")>>,
            <<"name", Str("Test User")>>,
            <<"picture", Str("https://example.com/avatar.jpg")>> >>),
     Obj(<< <<"id", Str("google-123")>>, <<"email", Str("updated@example.com")>>,
            <<"name", Str("Updated User")>> >>),
     Obj(<< <<"id", Str("google-123")>> >>),
     Obj(<< <<"email", Str("test@example.com")>>, <<"name", Str("Test User")>> >>),
     Obj(<< <<"id", Str("google-123")>>, <<"email", Str("test@example.com")>>,
            <<"name", Str("")>> >>)}

\* what userinfo.get resolves to, or its rejection
UserinfoResults == {[ok |-> TRUE, data |-> g] : g \in Profiles} \cup {[ok |-> FALSE]}

NoLogout == [pc |-> "idle", n |-> 0, redirectThrows |-> <<FALSE, FALSE>>, threw |-> FALSE,
             response |-> NoResponse, events |-> <<>>]

NoSession == [made |-> FALSE]
NoWire == [made |-> FALSE]
NoOut == [op |-> "none"]

\* no request in any context
NoContexts == [k \in Contexts |-> NoRequest]

\* the largest maxAttempts retryWithBackoff is called with
MaxAttempts == 4
AttemptLimits == 0..MaxAttempts

\* the base delays: the one of the tests, the default, and one the cap cuts
BaseDelays == {100, 1000, 20000}

\* what fn() settles to at its n-th invocation
ErrorClasses ==
    {"NetworkError", "DatabaseError", "ScanError", "ValidationError",
     "AuthenticationError", "Error"}
FnOutcomes(n) ==
    {[ok |-> TRUE, value |-> Str("success")]}
    \cup {[ok |-> FALSE, error |-> Error(c, n)] : c \in ErrorClasses}

\* the props the guard is mounted with
GuardProps ==
    [requireAuth : BOOLEAN, redirectTo : {Undefined, Str("/login")}, fallback : BOOLEAN]

\* what document.cookie reads at the instant t: nothing, or the session
\* cookie with one of the values a client may hold, or with a lone %
DocumentCookies(t) ==
    {<<>>} \cup {<<Ch("session=")>> \o v : v \in CookieValues(t) \cup {<<Ch("%")>>}}

\* how many clicks a button gets
MaxClicks == 4

\* what a request of the button ends in
FetchResults == {"ok", "not ok", "rejected"}

\* the props a result is displayed with
ScanProps ==
    [content : {"https://example.com", "1234567890"}, scanType : {"qr", "barcode"},
     format : {Undefined, Str("QR_CODE")}]

\* what onSave settles to
SaveResults ==
    {[ok |-> "resolved"],
     [ok |-> "rejected", isError |-> TRUE, message |-> Str("Network error")],
     [ok |-> "rejected", isError |-> FALSE, message |-> Undefined]}

\* the texts the scanner reads: blank, a URL, a UPC-A code, a text
ScannedTexts ==
    {Scanned("", "", 0, 0), Scanned("https://example.com", "https", 0, 19),
     Scanned("123456789012", "", 12, 12), Scanned("hello", "", 0, 5)}

\* how many asynchronous calls of the scanner are pending together
MaxPending == 2

\* the gate's second context, the retry helper and the components before
\* anything happened
UiInit ==
    /\ ctx = NoContexts
    /\ rt = NoRetry
    /\ guard = NoGuard
    /\ lb = NoLogoutButton
    /\ sr = NoScanResult
    /\ qs = NoQRScanner

----------------------------------------------------------------------------
(* The request gate, one request after another *)

Tick ==
    /\ \E t \in Instants : t > now /\ now' = t
    /\ UNCHANGED <<req, sess, wire, out, api, ui>>

\* history: the answer the request before got, when it carried the same cookie
Prior(c) ==
    IF req.pc = "idle" \/ req.cookie # c THEN "none"
    ELSE IF req.gate.isAuthenticated THEN "authenticated" ELSE "unauthenticated"

\* a request arrives: the gate runs to its call of next()
OnRequest ==
    /\ req.pc \in {"idle", "done", "threw"}
    /\ \E c \in {NoCookie} \cup {Cookie(v) : v \in CookieValues(now)} :
         LET g == onRequest(c, now)
         IN  req' = [pc |-> IF g.threw THEN "threw" ELSE "next", cookie |-> c,
                     at |-> now, gate |-> g, prior |-> Prior(c),
                     response |-> 0, returned |-> 0]
    /\ UNCHANGED <<now, sess, wire, out, api, ui>>

\* return next() giving a response of its own
returnOwn(response) == 200

\* return next(): what the gate returns is what next() resolves to
returnNext(response) == response

\* the rest of the chain answers and the gate returns
NextResolves ==
    /\ req.pc = "next"
    /\ \E r \in Responses :
         req' = [req EXCEPT !.pc = "done", !.response = r, !.returned = returnNext(r)]
    /\ UNCHANGED <<now, sess, wire, out, api, ui>>

Init ==
    /\ now = StartNow
    /\ req = NoRequest
    /\ sess = NoSession
    /\ wire = NoWire
    /\ out = NoOut
    /\ store = EmptyStore
    /\ cb = [p \in Slots |-> IdleCallback]
    /\ lo = NoLogout
    /\ UiInit

Next == Tick \/ OnRequest \/ NextResolves

Spec == Init /\ [][Next]_vars

----------------------------------------------------------------------------
(* The session model, one query of one session *)

\* the session the queries are about
SessionInit ==
    /\ \E c \in Created :
         /\ now = c.at
         /\ sess = [made |-> TRUE, at |-> c.at, ttl |-> c.ttl, session |-> c.session]
    /\ req = NoRequest
    /\ wire = NoWire
    /\ out = NoOut
    /\ store = EmptyStore
    /\ cb = [p \in Slots |-> IdleCallback]
    /\ lo = NoLogout
    /\ UiInit

\* the clock moves until the query is made
SessionTick == out = NoOut /\ Tick

Serialize ==
    /\ ~wire.made /\ out = NoOut
    /\ \E isProduction \in BOOLEAN :
         wire' = [made |-> TRUE, isProduction |-> isProduction,
                  text |-> serializeSessionToCookie(sess.session, isProduction)]
    /\ UNCHANGED <<now, req, sess, out, api, ui>>

\* the texts handed to parseSessionFromCookie
DeserializeInputs ==
    OddCookieValues
    \cup (IF wire.made
          THEN {wire.text, Payload(wire.text)} \cup Cuts(Payload(wire.text))
          ELSE {JSONstringify(sess.session)})

Deserialize ==
    /\ out = NoOut
    /\ \E text \in DeserializeInputs :
         out' = [op |-> "parseSessionFromCookie", text |-> text,
                 result |-> parseSessionFromCookie(text, now)]
    /\ UNCHANGED <<now, req, sess, wire, api, ui>>

IsValid ==
    /\ out = NoOut
    /\ \E s \in OddSessions \cup {Null, Undefined, sess.session} :
         out' = [op |-> "isSessionValid", session |-> s,
                 result |-> isSessionValid(s, now)]
    /\ UNCHANGED <<now, req, sess, wire, api, ui>>

\* the sessions the queries are made of
QuerySessions == OddSessions \cup {Null, Undefined, sess.session}

TimeRemaining ==
    /\ out = NoOut
    /\ \E s \in QuerySessions :
         out' = [op |-> "getSessionTimeRemaining", session |-> s,
                 result |-> getSessionTimeRemaining(s, now)]
    /\ UNCHANGED <<now, req, sess, wire, api, ui>>

RequireValid ==
    /\ out = NoOut
    /\ \E s \in QuerySessions :
         out' = [op |-> "requireValidSession", session |-> s,
                 result |-> requireValidSession(s, now)]
    /\ UNCHANGED <<now, req, sess, wire, api, ui>>

GetUser ==
    /\ out = NoOut
    /\ \E s \in QuerySessions :
         out' = [op |-> "getUserFromSession", session |-> s,
                 result |-> getUserFromSession(s, now)]
    /\ UNCHANGED <<now, req, sess, wire, api, ui>>

SessionNext ==
    \/ SessionTick \/ Serialize \/ Deserialize \/ IsValid
    \/ TimeRemaining \/ RequireValid \/ GetUser

SessionSpec == SessionInit /\ [][SessionNext]_vars

----------------------------------------------------------------------------
(* The API handlers: login callbacks in two slots, and logout *)

\* how many requests the API handlers have taken
Begun == cb["a"].n + cb["b"].n + lo.n

\* POST /api/auth/google arrives
Begin ==
    /\ Begun < MaxRequests
    /\ \E p \in Slots, url \in Urls, isProduction \in BOOLEAN :
         /\ cb[p].pc \in {"idle", "done"}
         \* NODE_ENV is the same for every request of a deployment
         /\ \A q \in Slots : cb[q].pc # "idle" => cb[q].isProduction = isProduction
         /\ cb' = [cb EXCEPT ![p] = begin(cb[p], url, isProduction)]
    /\ UNCHANGED <<now, core, store, lo, ui>>

TokenResolves ==
    /\ \E p \in Slots, r \in TokenResults :
         /\ cb[p].pc = "getToken"
         /\ cb' = [cb EXCEPT ![p] = afterGetToken(cb[p], r)]
    /\ UNCHANGED <<now, core, store, lo, ui>>

UserinfoResolves ==
    /\ \E p \in Slots, r \in UserinfoResults :
         /\ cb[p].pc = "userinfo"
         /\ cb' = [cb EXCEPT ![p] = afterUserinfo(cb[p], r)]
    /\ UNCHANGED <<now, core, store, lo, ui>>

\* the lookup is answered by the store, or fails
SelectResolves ==
    /\ \E p \in Slots :
         /\ cb[p].pc = "select"
         /\ LET googleId == Get(cb[p].googleUser, "id")
            IN  \E r \in {storeSelect(store, googleId), Unavailable} :
                  cb' = [cb EXCEPT ![p] =
                            [afterSelect(cb[p], r, now) EXCEPT
                                !.stored = Matching(store, googleId) # {}]]
    /\ UNCHANGED <<now, core, store, lo, ui>>

\* the insert is done by the store, or fails
InsertResolves ==
    /\ \E p \in Slots :
         /\ cb[p].pc = "insert"
         /\ \E w \in {storeInsert(store, cb[p].values, now),
                        [store |-> store, result |-> Unavailable]} :
              /\ store' = w.store
              /\ cb' = [cb EXCEPT ![p] = afterWrite(cb[p], w.result, now)]
    /\ UNCHANGED <<now, core, lo, ui>>

\* the update is done by the store, or fails
UpdateResolves ==
    /\ \E p \in Slots :
         /\ cb[p].pc = "update"
         /\ \E w \in {storeUpdate(store, cb[p].values,
                                    Get(cb[p].googleUser, "id"), now),
                        [store |-> store, result |-> Unavailable]} :
              /\ store' = w.store
              /\ cb' = [cb EXCEPT ![p] = afterWrite(cb[p], w.result, now)]
    /\ UNCHANGED <<now, core, lo, ui>>

\* POST /api/auth/logout is handled; the redirect helper throws or not
Logout ==
    /\ Begun < MaxRequests
    /\ \E first \in BOOLEAN, second \in BOOLEAN :
         LET redirectThrows == <<first, second>>
             r == logoutPOST(redirectThrows)
         IN  lo' = [pc |-> IF r.threw THEN "threw" ELSE "done", n |-> lo.n + 1,
                    redirectThrows |-> redirectThrows, threw |-> r.threw,
                    response |-> r.response, events |-> r.events]
    /\ UNCHANGED <<now, core, store, cb, ui>>

ApiNext ==
    \/ Begin \/ TokenResolves \/ UserinfoResolves \/ SelectResolves
    \/ InsertResolves \/ UpdateResolves \/ Logout

ApiSpec == Init /\ [][ApiNext]_vars

----------------------------------------------------------------------------
(* The request gate: properties *)

\* the gate has evaluated the request in req
Handled == req.pc # "idle"

\* how often the gate did e on the way
Count(e) == Cardinality({i \in 1..Len(req.gate.events) : req.gate.events[i] = e})

\* the cookie of the request parses, and what it parses to passes
\* isSessionValid at the instant of the evaluation
PresentedValid ==
    /\ req.cookie.present
    /\ JSONparse(req.cookie.value).ok
    /\ isSessionValid(JSONparse(req.cookie.value).v, req.at)

\* the cookie of the request does not parse
Malformed == req.cookie.present /\ ~JSONparse(req.cookie.value).ok

AllAbsent ==
    req.gate.session = Null /\ req.gate.user = Null /\ ~req.gate.isAuthenticated

\* C1: the gate sets isAuthenticated exactly when a session cookie is present,
\* parses and passes isSessionValid at the evaluation; the session attached is
\* then the parsed one and null otherwise, so isAuthenticated = (session # null)
C1_AuthenticatedIffSessionValid ==
    Handled =>
        /\ req.gate.isAuthenticated = PresentedValid
        /\ req.gate.session =
              IF PresentedValid THEN JSONparse(req.cookie.value).v ELSE Null
        /\ req.gate.isAuthenticated = (req.gate.session # Null)

C1_Witness ==
    /\ Handled /\ req.gate.isAuthenticated
    /\ req.gate.session = JSONparse(req.cookie.value).v
    /\ req.gate.session \in {c.session : c \in Created}

\* C2: whenever the gate answers isAuthenticated, the identity of the decision
\* is not null, is the identity embedded in the credential and passes
\* validateUser
C2_AuthenticatedHasValidIdentity ==
    (Handled /\ req.gate.isAuthenticated) =>
        /\ req.gate.user # Null
        /\ req.gate.user = Get(JSONparse(req.cookie.value).v, "user")
        /\ validateUser(req.gate.user)

\* C3: the gate deletes the session cookie exactly when one is present and
\* either does not parse or parses to a session that is not valid
C3_ClearIffPresentAndInvalid ==
    Handled =>
        /\ (Count("cookies.delete") > 0) = (req.cookie.present /\ ~PresentedValid)
        /\ Count("cookies.delete") <= 1

C3_Witness ==
    /\ Handled /\ req.cookie.present /\ ~Malformed /\ ~PresentedValid
    /\ Count("cookies.delete") = 1

\* the credential carries an expiry: it parses, and its expiresAt is a date
HasExpiry ==
    /\ req.cookie.present
    /\ JSONparse(req.cookie.value).ok
    /\ Truthy(JSONparse(req.cookie.value).v)
    /\ Get(JSONparse(req.cookie.value).v, "expiresAt").t \in {"datestring", "number"}

ExpiryOf == DateGetTime(Get(JSONparse(req.cookie.value).v, "expiresAt")).n

\* C4: a credential with expiry E is answered authenticated at every instant
\* before E and unauthenticated at E and after; once a request with a
\* credential was answered unauthenticated, the next one with it is too
C4_AuthenticatedUntilExpiry ==
    /\ (Handled /\ HasExpiry) => (req.gate.isAuthenticated = (req.at < ExpiryOf))
    /\ (Handled /\ req.prior = "unauthenticated") => ~req.gate.isAuthenticated

C4_Witness ==
    /\ Handled /\ HasExpiry /\ req.prior = "authenticated"
    /\ req.at = ExpiryOf /\ ~req.gate.isAuthenticated

\* C5: on every path the gate writes the decision to locals, then calls next()
\* once, and returns what next() resolves to; it never ends a request itself
C5_AnnotatesThenProceeds ==
    Handled =>
        LET ev == req.gate.events
        IN  /\ req.pc \in {"next", "done"}
            /\ Count("next") = 1 /\ ev[Len(ev)] = "next"
            /\ \A l \in {"locals.session", "locals.user", "locals.isAuthenticated"} :
                  Count(l) = 1
            /\ req.pc = "done" => req.returned = req.response

C5_Witness ==
    /\ req.pc = "done" /\ ~req.cookie.present
    /\ req.returned = 201 /\ req.response = 201

\* C6: a failure to parse or validate the credential never leaves the gate: it
\* is logged, the decision is the all-absent one and the cookie is deleted
C6_FailsClosed ==
    /\ Handled => ~req.gate.threw /\ req.pc # "threw"
    /\ (Handled /\ Malformed) =>
          AllAbsent /\ Count("console.error") > 0 /\ Count("cookies.delete") = 1

C6_Witness ==
    /\ req.pc = "done" /\ Malformed /\ AllAbsent
    /\ req.cookie.value \in Cuts(JSONstringify(createAuthSession(
           mockUser, Str("token123"), DefaultExpiresIn, StartNow)))

\* C7: the gate logs once for a credential that does not parse, and not at
\* all for an absent one, a well-formed expired one or a valid one
C7_LogsOnlyMalformed ==
    Handled => Count("console.error") = IF Malformed THEN 1 ELSE 0

C7_Witness ==
    /\ Handled /\ HasExpiry /\ req.at >= ExpiryOf
    /\ Count("console.error") = 0 /\ Count("cookies.delete") = 1

----------------------------------------------------------------------------
(* The session model: properties *)

Deserialized == out.op = "parseSessionFromCookie"

\* the session of sess came back: the same identity and expiry, and valid
CameBack ==
    /\ ~out.result.threw
    /\ out.result.v # Null
    /\ Get(out.result.v, "user") = Get(sess.session, "user")
    /\ Get(out.result.v, "expiresAt") = Get(sess.session, "expiresAt")
    /\ isSessionValid(out.result.v, now)

BeforeExpiry == now < sess.at + sess.ttl * MsPerSecond

\* C8 as stated: parseSessionFromCookie of what serializeSessionToCookie gives
\* for a session of 3600 seconds, before its expiry, is that session, valid
C8_RoundTripOfTheCookieString ==
    (/\ Deserialized /\ wire.made /\ out.text = wire.text
     /\ sess.ttl = DefaultExpiresIn /\ BeforeExpiry)
        => CameBack

\* C8 as amended: parseSessionFromCookie of the <json> payload of what
\* serializeSessionToCookie gives for a session of 3600 seconds, before its
\* expiry, in production or not, is that session, valid
C8_RoundTripOfThePayload ==
    (/\ Deserialized /\ wire.made /\ out.text = Payload(wire.text)
     /\ sess.ttl = DefaultExpiresIn /\ BeforeExpiry)
        => CameBack

C8_Witness ==
    /\ Deserialized /\ wire.made /\ wire.isProduction
    /\ out.text = Payload(wire.text) /\ sess.ttl = DefaultExpiresIn
    /\ now > sess.at /\ BeforeExpiry /\ CameBack

\* a session of the declared shape: an identity, a token and an expiry string
WellShaped(v) ==
    /\ v.t = "object"
    /\ Get(v, "user").t = "object"
    /\ Get(v, "accessToken").t = "string"
    /\ Get(v, "expiresAt").t \in {"string", "datestring"}

\* the text is the JSON of a well-shaped session that has not expired
GoodText(text) ==
    /\ JSONparse(text).ok
    /\ WellShaped(JSONparse(text).v)
    /\ Less(Num(now), DateGetTime(Get(JSONparse(text).v, "expiresAt")))

\* C9: parseSessionFromCookie never throws, and returns null for every text
\* that is not the JSON of a well-shaped, unexpired session
C9_DeserializeTotalAndFiltering ==
    Deserialized =>
        /\ ~out.result.threw
        /\ ~GoodText(out.text) => out.result.v = Null

\* C10: isSessionValid is false exactly when the session is absent, its expiry
\* is absent or no date, or expiry <= now, whatever the identity; a session
\* created with ttl <= 0 is not valid at its creation, and a session is valid
\* at every instant before its expiry
C10_ValidIffBeforeExpiry ==
    out.op = "isSessionValid" =>
        LET s == out.session
            absent == s \in {Null, Undefined}
            expiry == Get(s, "expiresAt")
            noExpiry == expiry \in {Undefined, Null, Str("")}
            time == DateGetTime(expiry)
        IN  /\ out.result = ~(absent \/ noExpiry \/ time = NaN \/ time.n <= now)
            /\ s = sess.session => out.result = BeforeExpiry
            /\ (s = sess.session /\ sess.ttl <= 0 /\ now = sess.at) => ~out.result

C10_Witness ==
    /\ out.op = "isSessionValid" /\ out.session = sess.session
    /\ ~validateUser(Get(out.session, "user"))
    /\ now = sess.at + sess.ttl * MsPerSecond - 1
    /\ out.result

\* the session queried is absent, or carries no expiry
Absent(s) == s \in {Null, Undefined}
NoExpiry(s) == Get(s, "expiresAt") \in {Undefined, Null, Str("")}

\* C11: getSessionTimeRemaining gives a whole number >= 0 for every input: the
\* ttl at the creation of a session made with ttl > 0,
\* max(0, floor((expiry - now) / 1000)) in general, and 0 when the session is
\* absent or expired or its expiry is absent or no date
C11_RemainingSeconds ==
    out.op = "getSessionTimeRemaining" =>
        LET s == out.session
            r == out.result
            time == DateGetTime(Get(s, "expiresAt"))
            degraded == Absent(s) \/ NoExpiry(s) \/ time = NaN \/ time.n <= now
        IN  /\ r.t = "number" /\ r.n >= 0
            /\ degraded => r = Num(0)
            /\ ~degraded => r = Num((time.n - now) \div MsPerSecond)
            /\ (s = sess.session /\ now = sess.at /\ sess.ttl > 0) => r = Num(sess.ttl)

\* C12: requireValidSession reports the first failure of: no session ('No
\* session provided'), session not valid ('Session has expired', whatever the
\* identity), identity not valid ('Invalid user data in session'); it returns
\* the embedded identity when all three pass; every failure is an
\* AuthenticationError
C12_FirstFailureReported ==
    out.op = "requireValidSession" =>
        LET s == out.session
            r == out.result
            valid == isSessionValid(s, now)
            identity == validateUser(Get(s, "user"))
            Fails(message) ==
                r.threw /\ r.v.name = "AuthenticationError" /\ r.v.message = message
        IN  /\ Absent(s) => Fails("No session provided")
            /\ (~Absent(s) /\ ~valid) => Fails("Session has expired")
            /\ (~Absent(s) /\ valid /\ ~identity) => Fails("Invalid user data in session")
            /\ (~Absent(s) /\ valid /\ identity) => r = Return(Get(s, "user"))

C12_Witness ==
    /\ out.op = "requireValidSession" /\ out.session = sess.session
    /\ ~isSessionValid(out.session, now)
    /\ ~validateUser(Get(out.session, "user"))
    /\ out.result.threw /\ out.result.v.message = "Session has expired"

\* C13: getUserFromSession never throws; it returns the embedded identity
\* when the session is present and valid and its identity is valid, which is
\* when requireValidSession returns it, and null in each of the three cases
\* in which requireValidSession fails
C13_IdentityOrNull ==
    out.op = "getUserFromSession" =>
        LET s == out.session
            r == out.result
            passes == ~Absent(s) /\ isSessionValid(s, now) /\ validateUser(Get(s, "user"))
        IN  /\ ~r.threw
            /\ r.v = IF passes THEN Get(s, "user") ELSE Null
            /\ (r.v # Null) = ~requireValidSession(s, now).threw

C13_Witness ==
    /\ out.op = "getUserFromSession" /\ out.session = sess.session
    /\ isSessionValid(out.session, now)
    /\ ~validateUser(Get(out.session, "user"))
    /\ out.result = Return(Null)

\* C14: the Max-Age of the cookie string serialized for a session is the ttl
\* the session was created with
C14_MaxAgeIsTtl ==
    wire.made =>
        \E i \in 1..Len(wire.text) : wire.text[i] = Ch("Max-Age=" \o ToString(sess.ttl))

\* the cookie string of the session of sess with the SameSite segment given
WireFormat(sameSite) ==
    <<Ch("session=")>> \o JSONstringify(sess.session)
    \o <<Ch("; "), Ch("HttpOnly")>>
    \o (IF wire.isProduction THEN <<Ch("; "), Ch("Secure")>> ELSE <<>>)
    \o <<Ch("; "), Ch(sameSite), Ch("; "), Ch("Max-Age=3600"), Ch("; "), Ch("Path=/")>>

\* C15 as stated: serializeSessionToCookie gives
\* session=<json>; HttpOnly; [Secure; ]SameSite=Lax; Max-Age=3600; Path=/,
\* Secure being there exactly in production
C15_WireFormatCapitalLax == wire.made => wire.text = WireFormat("SameSite=Lax")

\* C15 as amended: serializeSessionToCookie gives
\* session=<json>; HttpOnly; [Secure; ]SameSite=lax; Max-Age=3600; Path=/,
\* Secure being there exactly in production
C15_WireFormatLowerLax == wire.made => wire.text = WireFormat("SameSite=lax")

C15_Witness ==
    /\ wire.made /\ wire.isProduction
    /\ wire.text = WireFormat("SameSite=lax")
    /\ \E i \in 1..Len(wire.text) : wire.text[i] = Ch("Secure")

----------------------------------------------------------------------------
(* The API handlers: properties *)

\* C16: every logout ends with a response that carries the clear-form
\* cookie, whatever the redirect helper does: the handler never throws, and
\* when the first redirect throws the response is the redirect to
\* /?error=logout_failed
C16_LogoutAlwaysClears ==
    lo.pc # "idle" =>
        /\ ~lo.threw /\ lo.pc = "done"
        /\ lo.response.setCookie = createClearSessionCookie
        /\ lo.response.location =
              IF lo.redirectThrows[1] THEN "/?error=logout_failed" ELSE "/?logout=success"

\* the callback in slot p ended with the success redirect
Succeeded(p) == cb[p].pc = "done" /\ cb[p].response.location = "/?auth=success"

\* the text has the segment seg
HasSegment(text, seg) == \E i \in 1..Len(text) : text[i] = Ch(seg)

\* C17: the Set-Cookie of a successful login is what serializeSessionToCookie
\* gives for the session just created: it starts with session=<json of the
\* session> and carries Max-Age=3600, HttpOnly and Path=/
C17_LoginCredentialIsSerialized ==
    \A p \in Slots : Succeeded(p) =>
        LET c == cb[p]
            text == c.response.setCookie
            json == JSONstringify(c.session)
        IN  /\ SubSeq(text, 1, 1 + Len(json)) = <<Ch("session=")>> \o json
            /\ text = serializeSessionToCookie(c.session, c.isProduction)
            /\ HasSegment(text, "Max-Age=3600")
            /\ HasSegment(text, "HttpOnly") /\ HasSegment(text, "Path=/")

\* the place of the first e among the events, 0 when there is none
Index(events, e) ==
    LET hit == {i \in 1..Len(events) : events[i] = e}
    IN  IF hit = {} THEN 0 ELSE CHOOSE i \in hit : \A j \in hit : i <= j

\* how often e is among the events
Times(events, e) == Cardinality({i \in 1..Len(events) : events[i] = e})

\* the callback sent an insert or an update, and it failed
WriteFailed(c) ==
    /\ Times(c.events, "insert") + Times(c.events, "update") > 0
    /\ c.pc = "done"
    /\ Truthy(c.write.error) \/ ~Truthy(c.write.data)

\* C18: a callback creates its session only after its insert or update came
\* back without an error, around the row the store returned, which is a row
\* of the table and not the profile of the provider; when the write fails no
\* session is created
C18_CreateAfterStoreWrite ==
    \A p \in Slots :
        LET c == cb[p]
            created == Index(c.events, "createAuthSession")
            written == Index(c.events, "insert") + Index(c.events, "update")
            user == Get(c.session, "user")
        IN  /\ (created > 0 \/ c.session # Undefined) =>
                  /\ 0 < written /\ written < created
                  /\ c.write.error = Null /\ c.write.data # Null
                  /\ user = c.write.data /\ user # c.googleUser
                  /\ \E i \in 1..Len(store.rows) :
                        /\ Get(store.rows[i], "id") = Get(user, "id")
                        /\ Get(store.rows[i], "google_id") = Get(c.googleUser, "id")
            /\ WriteFailed(c) => (created = 0 /\ c.session = Undefined)

C18_Witness ==
    /\ Succeeded("a") /\ Index(cb["a"].events, "update") > 0
    /\ Get(cb["a"].session, "user") = cb["a"].write.data
    /\ WriteFailed(cb["b"]) /\ cb["b"].session = Undefined

\* the columns of row agree with the profile
AgreesWithProfile(row, googleUser) ==
    /\ Get(row, "email") = Get(googleUser, "email")
    /\ Get(row, "name") = Get(googleUser, "name")
    /\ Get(row, "avatar_url") = Or(Get(googleUser, "picture"), Null)

\* the callback got a complete profile and is over
LookedUp(c) == c.pc = "done" /\ Index(c.events, "select") > 0

\* the callback sent one write: an insert of the profile when found is false,
\* an update when it is true; and the row of a successful login agrees with
\* the profile
OneWrite(c, found) ==
    /\ Times(c.events, "insert") + Times(c.events, "update") = 1
    /\ ~found =>
          /\ Times(c.events, "insert") = 1
          /\ Get(c.values, "google_id") = Get(c.googleUser, "id")
          /\ AgreesWithProfile(c.values, c.googleUser)
    /\ found => Times(c.events, "update") = 1
    /\ c.response.location = "/?auth=success" =>
          AgreesWithProfile(c.write.data, c.googleUser)

\* C19: a callback with a complete profile sends one write: an insert of the
\* profile when no identity with its id is stored at the lookup, an update
\* when one is stored; after a successful login the row agrees with the
\* profile
C19_OneWriteByWhatIsStored ==
    \A p \in Slots : LookedUp(cb[p]) => OneWrite(cb[p], cb[p].stored)

\* the profile lacks its id, email or name
Incomplete(googleUser) ==
    \E k \in {"id", "email", "name"} : ~Truthy(Get(googleUser, k))

\* where a callback that is over has to have redirected
Mapped(c) ==
    IF Truthy(c.url.error) THEN "/?error=oauth_denied"
    ELSE IF ~Truthy(c.url.code) THEN "/?error=invalid_request"
    ELSE IF c.rejected # "" THEN "/?error=server_error"
    ELSE IF c.googleUser # Undefined /\ Incomplete(c.googleUser) THEN "/?error=auth_failed"
    ELSE IF WriteFailed(c) THEN "/?error=auth_failed"
    ELSE "/?auth=success"

\* C20: a failing callback ends in the redirect mapped to its failure and sets
\* no cookie: oauth_denied for an error parameter, before any token exchange
\* or store access; invalid_request for a missing code; auth_failed for an
\* incomplete profile or a failed insert or update; server_error for a
\* rejected token exchange or profile request
C20_FailuresAreMapped ==
    \A p \in Slots : cb[p].pc = "done" =>
        LET c == cb[p]
        IN  /\ c.response.location = Mapped(c)
            /\ c.response.location # "/?auth=success" =>
                  (c.response.setCookie = <<>> /\ c.session = Undefined)
            /\ Truthy(c.url.error) =>
                  \A e \in {"getToken", "select", "insert", "update"} :
                      Index(c.events, e) = 0

C20_Witness ==
    /\ cb["a"].pc = "done" /\ WriteFailed(cb["a"])
    /\ cb["a"].response.location = "/?error=auth_failed"
    /\ cb["b"].pc = "done" /\ Truthy(cb["b"].url.error) /\ Truthy(cb["b"].url.code)
    /\ cb["b"].response.location = "/?error=oauth_denied"

\* C21: the table holds at most one row for an external id, and every row has
\* a non-empty email and name, whatever the callbacks did and however they
\* interleaved
C21_OneIdentityPerExternalId ==
    /\ \A i, j \in 1..Len(store.rows) :
          Get(store.rows[i], "google_id") = Get(store.rows[j], "google_id") => i = j
    /\ \A i \in 1..Len(store.rows) :
          /\ Get(store.rows[i], "email").t = "string" /\ Get(store.rows[i], "email") # Str("")
          /\ Get(store.rows[i], "name").t = "string" /\ Get(store.rows[i], "name") # Str("")

\* both callbacks looked up the id while none was stored and both sent the
\* insert; one row is stored
C21_Witness ==
    /\ \A p \in Slots :
          /\ cb[p].pc = "done" /\ ~cb[p].stored
          /\ Times(cb[p].events, "insert") = 1
          /\ cb[p].write.error # Unavailable.error
    /\ Succeeded("a") /\ ~Succeeded("b")
    /\ Len(store.rows) = 1

\* the lookup and the write of the callback were answered by the store
StoreAnswered(c) ==
    /\ c.stored = (c.existingUser # Null)
    /\ c.write.error # Unavailable.error

\* C29: a callback with a complete profile whose store operations are
\* answered ends in the success redirect with a session cookie, however it
\* interleaves with other callbacks for the same id
C29_AnsweredLoginsSucceed ==
    \A p \in Slots :
        (LookedUp(cb[p]) /\ StoreAnswered(cb[p])) =>
            /\ Succeeded(p)
            /\ cb[p].response.setCookie # <<>>

----------------------------------------------------------------------------
(* The retry helper: one call of retryWithBackoff *)

RetryCall ==
    /\ rt.pc = "idle"
    /\ \E maxAttempts \in AttemptLimits, baseDelay \in BaseDelays :
         rt' = retryWithBackoff(maxAttempts, baseDelay)
    /\ UNCHANGED <<now, core, api, ctx, guard, lb, sr, qs>>

FnSettles ==
    /\ rt.pc = "fn"
    /\ \E o \in FnOutcomes(rt.invoked) : rt' = afterFn(rt, o)
    /\ UNCHANGED <<now, core, api, ctx, guard, lb, sr, qs>>

TimerFires ==
    /\ rt.pc = "timer"
    /\ rt' = afterTimeout(rt)
    /\ UNCHANGED <<now, core, api, ctx, guard, lb, sr, qs>>

RetryNext == RetryCall \/ FnSettles \/ TimerFires

\* a promise fn returns settles, and a timer set fires
RetrySpec ==
    Init /\ [][RetryNext]_vars /\ WF_vars(FnSettles) /\ WF_vars(TimerFires)

\* the delay the claim gives for the wait after the attempt
ClaimedDelay(attempt, baseDelay) ==
    LET d == baseDelay * MathPow2(attempt - 1)
    IN  IF d <= 30000 THEN d ELSE 30000

\* the n-th invocation of fn failed with a retryable error
RetryableFailure(n) == ~rt.outcomes[n].ok /\ isRetryableError(rt.outcomes[n].error)

\* what holds of a call with maxAttempts >= 1 at every moment
C25_Safe ==
    (rt.pc # "idle" /\ rt.maxAttempts >= 1) =>
        /\ rt.invoked <= rt.maxAttempts
        /\ rt.invoked = Len(rt.outcomes) + (IF rt.pc = "fn" THEN 1 ELSE 0)
        /\ \A n \in 1..(rt.invoked - 1) : RetryableFailure(n)
        /\ Len(rt.delays) = rt.invoked - (IF rt.pc = "timer" THEN 0 ELSE 1)
        /\ \A n \in 1..Len(rt.delays) : rt.delays[n] = ClaimedDelay(n, rt.baseDelay)
        /\ rt.pc = "resolved" =>
              /\ rt.outcomes[rt.invoked].ok
              /\ rt.settled = Resolved(rt.outcomes[rt.invoked].value)
        /\ rt.pc = "rejected" =>
              /\ ~rt.outcomes[rt.invoked].ok
              /\ rt.settled = Rejected(rt.outcomes[rt.invoked].error)
              /\ rt.invoked = rt.maxAttempts \/ ~RetryableFailure(rt.invoked)

----------------------------------------------------------------------------
(* The request gate, two requests in flight together *)

\* the cookies the requests in flight together carry: sessions created at the
\* first instant, complete and with an empty email, for an hour and for a
\* second; a session whose expiry is no date; text that is no JSON; a cut
PairCookies ==
    {NoCookie}
    \cup {Cookie(JSONstringify(c.session)) :
            c \in {x \in Created : /\ x.at = StartNow /\ x.ttl \in {DefaultExpiresIn, 1}
                                   /\ x.session.e[1][2] # Undefined}}
    \cup {Cookie(JSONstringify(Obj(<< <<"user", mockUser>>,
                                      <<"expiresAt", Str("not-a-date")>> >>))),
          Cookie(<<Ch("invalid-json")>>), Cookie(<<Ch("{")>>)}

\* a request arrives in a free context: the gate runs to its call of next()
Arrive ==
    /\ \E k \in Contexts, c \in PairCookies :
         /\ ctx[k].pc \in {"idle", "done", "threw"}
         /\ LET g == onRequest(c, now)
            IN  ctx' = [ctx EXCEPT ![k] =
                          [pc |-> IF g.threw THEN "threw" ELSE "next", cookie |-> c,
                           at |-> now, gate |-> g, prior |-> "none",
                           response |-> 0, returned |-> 0]]
    /\ UNCHANGED <<now, core, api, rt, guard, lb, sr, qs>>

\* the rest of the chain answers the request of a context and the gate returns
ChainResolves ==
    /\ \E k \in Contexts, r \in Responses :
         /\ ctx[k].pc = "next"
         /\ ctx' = [ctx EXCEPT ![k] = [@ EXCEPT !.pc = "done", !.response = r,
                                                !.returned = returnNext(r)]]
    /\ UNCHANGED <<now, core, api, rt, guard, lb, sr, qs>>

PairNext == Tick \/ Arrive \/ ChainResolves

PairSpec == Init /\ [][PairNext]_vars

\* the gate has evaluated the request of the context
Evaluated(k) == ctx[k].pc # "idle"

\* the requests in the two contexts carry the same cookie and were evaluated
\* at the same reading of the clock
SameInputs(j, k) ==
    /\ Evaluated(j) /\ Evaluated(k)
    /\ ctx[j].cookie = ctx[k].cookie /\ ctx[j].at = ctx[k].at

----------------------------------------------------------------------------
(* Login, then requests with the cookie of the login *)

\* a request arrives with the cookie a successful login set: the gate runs to
\* its call of next().  What the rest of the chain answers is left out: req
\* is the request evaluated last
Present ==
    /\ \E p \in Slots :
         /\ cb[p].pc = "done" /\ cb[p].response.location = "/?auth=success"
         /\ LET c == Cookie(Payload(cb[p].response.setCookie))
                g == onRequest(c, now)
            IN  req' = [pc |-> IF g.threw THEN "threw" ELSE "next", cookie |-> c,
                        at |-> now, gate |-> g, prior |-> Prior(c),
                        response |-> 0, returned |-> 0]
    /\ UNCHANGED <<now, sess, wire, out, api, ui>>

\* how many logins the lifecycle follows
MaxLogins == 2

\* the logins of the lifecycle come one after another, in slot a
LoginBegins ==
    /\ cb["a"].n < MaxLogins
    /\ Begin
    /\ cb'["b"] = cb["b"]

LifecycleNext ==
    \/ Tick \/ LoginBegins \/ TokenResolves \/ UserinfoResolves \/ SelectResolves
    \/ InsertResolves \/ UpdateResolves \/ Present

LifecycleSpec == Init /\ [][LifecycleNext]_vars

\* the request in req carries the cookie the login of slot p set
CarriesCookieOf(p) ==
    /\ Handled /\ Succeeded(p)
    /\ req.cookie = Cookie(Payload(cb[p].response.setCookie))

\* the expiry of the session the login of slot p created, in milliseconds
ExpiryOfLogin(p) == DateGetTime(Get(cb[p].session, "expiresAt")).n

\* C24: a request that carries the cookie value a successful login set is
\* answered authenticated at every instant before the expiry of the session
\* the login created, with the session of the login and, as identity, the row
\* the store returned to the login, which is a row of the table; at the
\* expiry and after it the answer is all absent and the cookie is deleted
C24_LoginThenGate ==
    \A p \in Slots : CarriesCookieOf(p) =>
        IF req.at < ExpiryOfLogin(p)
        THEN /\ req.gate.isAuthenticated
             /\ req.gate.session = cb[p].session
             /\ req.gate.user = cb[p].write.data
             /\ \E i \in 1..Len(store.rows) :
                   /\ Get(store.rows[i], "id") = Get(req.gate.user, "id")
                   /\ Get(store.rows[i], "google_id") = Get(req.gate.user, "google_id")
        ELSE AllAbsent /\ Count("cookies.delete") = 1

\* the cookie of a login was answered authenticated, and at the instant of
\* the session's expiry it is answered all absent
C24_Witness ==
    /\ CarriesCookieOf("a") /\ req.prior = "authenticated"
    /\ req.at = ExpiryOfLogin("a") /\ AllAbsent /\ Count("cookies.delete") = 1

----------------------------------------------------------------------------
(* The guard of a page: one mount of AuthGuard *)

GuardMounts ==
    /\ guard.pc = "unmounted"
    /\ \E props \in GuardProps, documentCookie \in DocumentCookies(now) :
         guard' = mount(props, documentCookie, now)
    /\ UNCHANGED <<now, core, api, ctx, rt, lb, sr, qs>>

GuardRenders ==
    /\ guard.pc = "set"
    /\ guard' = rerender(guard)
    /\ UNCHANGED <<now, core, api, ctx, rt, lb, sr, qs>>

GuardEffects ==
    /\ guard.pc = "rendered"
    /\ guard' = effects(guard)
    /\ UNCHANGED <<now, core, api, ctx, rt, lb, sr, qs>>

\* the clock moves until the guard is mounted
GuardTick == guard.pc = "unmounted" /\ Tick

GuardNext == GuardTick \/ GuardMounts \/ GuardRenders \/ GuardEffects

GuardSpec == Init /\ [][GuardNext]_vars

\* the guard has resolved its check, rendered and run its effects
Resolved22 == guard.pc = "settled"

\* what the guard shows
Shown == guard.rendered[Len(guard.rendered)]

\* the guard redirected
Redirected == guard.href # ""

\* the outcome the precedence of the claim gives
ClaimedOutcome ==
    IF ~Truthy(guard.authState.user) /\ Truthy(guard.props.redirectTo) THEN "redirect"
    ELSE IF ~Truthy(guard.authState.user) /\ guard.props.fallback THEN "fallback"
    ELSE IF ~Truthy(guard.authState.user) THEN "prompt"
    ELSE "children"

\* C22: a guard with requireAuth that has resolved its check does one of
\* four things, by precedence: it redirects and shows neither the fallback
\* nor the prompt; or shows the fallback; or shows the login prompt; or shows
\* the children.  The children are never shown while loading or while
\* unauthenticated
C22_OneOutcomeByPrecedence ==
    guard.props.requireAuth =>
        /\ Resolved22 =>
              /\ Redirected = (ClaimedOutcome = "redirect")
              /\ ClaimedOutcome = "redirect" => Shown \notin {"fallback", "prompt", "children"}
              /\ ClaimedOutcome # "redirect" => Shown = ClaimedOutcome
        /\ \A i \in 1..Len(guard.rendered) :
              guard.rendered[i] = "children" =>
                  (guard.pc # "set" /\ i > 1 /\ Truthy(guard.authState.user))

\* the cookie the browser would send to the gate for what document.cookie reads
SentCookie ==
    IF guard.documentCookie = <<>> THEN NoCookie
    ELSE Cookie(Payload(guard.documentCookie))

\* C28: for every value of the session cookie and every reading of the
\* clock, the guard's isAuthenticated (its user is not null) is the gate's
C28_GuardAgreesWithGate ==
    guard.pc \in {"rendered", "settled"} =>
        Truthy(guard.authState.user) = onRequest(SentCookie, guard.at).isAuthenticated

----------------------------------------------------------------------------
(* The logout button *)

LogoutClick ==
    /\ lb.clicks < MaxClicks
    /\ lb' = handleLogout(lb)
    /\ UNCHANGED <<now, core, api, ctx, rt, guard, sr, qs>>

LogoutFetchSettles ==
    /\ \E i \in 1..Len(lb.runs), ok \in FetchResults :
         /\ lb.runs[i].pc = "fetch"
         /\ lb' = afterFetch(lb, i, ok)
    /\ UNCHANGED <<now, core, api, ctx, rt, guard, sr, qs>>

LogoutJsonSettles ==
    /\ \E i \in 1..Len(lb.runs) :
         /\ lb.runs[i].pc = "json"
         /\ lb' = afterJson(lb, i)
    /\ UNCHANGED <<now, core, api, ctx, rt, guard, sr, qs>>

\* the state set after an await is rendered
LogoutRenders ==
    /\ lb.shown # lb.isLoggingOut
    /\ lb' = [lb EXCEPT !.shown = lb.isLoggingOut]
    /\ UNCHANGED <<now, core, api, ctx, rt, guard, sr, qs>>

LogoutButtonNext ==
    LogoutClick \/ LogoutFetchSettles \/ LogoutJsonSettles \/ LogoutRenders

LogoutButtonSpec == Init /\ [][LogoutButtonNext]_vars

\* the runs of handleLogout whose request has not settled
InFlight == {i \in 1..Len(lb.runs) : lb.runs[i].pc # "done"}

----------------------------------------------------------------------------
(* The result of a scan and its Save button *)

\* how many clicks the buttons of a scan's result get
MaxSaveClicks == 4

\* the result of a scan is displayed
ScanResultMounts ==
    /\ sr.pc = "unmounted"
    /\ \E props \in ScanProps : sr' = ScanResult(props)
    /\ UNCHANGED <<now, core, api, ctx, rt, guard, lb, qs>>

SaveClick ==
    /\ sr.pc = "mounted" /\ sr.clicks < MaxSaveClicks
    /\ \E button \in SaveButtons :
         /\ Rendered(sr, button)
         /\ sr' = click(sr, button)
    /\ UNCHANGED <<now, core, api, ctx, rt, guard, lb, qs>>

SaveSettles ==
    /\ \E i \in 1..Len(sr.runs), o \in SaveResults :
         /\ sr.runs[i].pc = "onSave"
         /\ sr' = afterSave(sr, i, o)
    /\ UNCHANGED <<now, core, api, ctx, rt, guard, lb, qs>>

\* the state set after the await is rendered
SaveRenders ==
    /\ sr.shown # sr.state
    /\ sr' = [sr EXCEPT !.shown = sr.state]
    /\ UNCHANGED <<now, core, api, ctx, rt, guard, lb, qs>>

ScanResultNext == ScanResultMounts \/ SaveClick \/ SaveSettles \/ SaveRenders

ScanResultSpec == Init /\ [][ScanResultNext]_vars

\* the calls of onSave that have not settled
Saving == {i \in 1..Len(sr.runs) : sr.runs[i].pc = "onSave"}

\* C27: onSave is never called while a call of it has not settled, nor after
\* one resolved, so at most one call resolves and it is the last; isSaved is
\* true exactly when a call resolved; after a rejected call saveError is set
\* and isSaved is false, and Try again is there to call onSave again; once
\* the scan is shown as saved, Save is disabled and Try again is not there
C27_SavedAtMostOnce ==
    /\ Cardinality(Saving) <= 1
    /\ \A i \in 1..(Len(sr.runs) - 1) : sr.runs[i].ok = "rejected"
    /\ \A i \in 1..Len(sr.runs) : sr.runs[i].scanData = sr.props
    /\ sr.state.isSaving = (Saving # {})
    /\ sr.state.isSaved = (\E i \in 1..Len(sr.runs) : sr.runs[i].ok = "resolved")
    /\ Truthy(sr.state.saveError) =
          (sr.runs # <<>> /\ sr.runs[Len(sr.runs)].ok = "rejected")
    /\ (Truthy(sr.state.saveError) /\ sr.shown = sr.state) =>
          (Rendered(sr, "Try again") /\ ~Disabled(sr, "Try again")
           /\ Len(click(sr, "Try again").runs) = Len(sr.runs) + 1)
    /\ sr.shown.isSaved =>
          \A button \in SaveButtons :
              Rendered(sr, button) => click(sr, button).runs = sr.runs

\* a save was rejected, the retry resolved, the scan is shown as saved and
\* was clicked again
C27_Witness ==
    /\ Len(sr.runs) = 2 /\ sr.runs[1].ok = "rejected" /\ sr.runs[2].ok = "resolved"
    /\ sr.shown.isSaved /\ sr.shown.saveError = Null /\ ~sr.shown.isSaving
    /\ sr.clicks = 4

----------------------------------------------------------------------------
(* The scanner *)

\* CameraPermissions reports the permission granted or denied
PermissionSettles ==
    /\ Page(qs.shown) = "permissions"
    /\ \E granted \in BOOLEAN :
         qs' = [qs EXCEPT !.state = IF granted THEN handlePermissionGranted(@)
                                    ELSE handlePermissionDenied(@)]
    /\ UNCHANGED <<now, core, api, ctx, rt, guard, lb, sr>>

\* a click on a button of the page: its handler, and the render of the state
\* it set, which React does before the next event
ScannerClick ==
    /\ \E button \in {"Start Scanning", "Stop Scanning", "Dismiss", "Scan Again", "Close"} :
         /\ CASE button = "Start Scanning" ->
                    Page(qs.shown) = "scanner" /\ ~qs.shown.isScanning
              [] button = "Stop Scanning" ->
                    Page(qs.shown) = "scanner" /\ qs.shown.isScanning
              [] button = "Dismiss" ->
                    Page(qs.shown) = "scanner" /\ Truthy(qs.shown.error)
              [] OTHER -> Page(qs.shown) = "result"
         /\ qs' = commit(qs, CASE button = "Start Scanning" -> handleStartScanning(qs.state)
                               [] button = "Stop Scanning" -> handleStopScanning(qs.state)
                               [] button = "Dismiss" -> [qs.state EXCEPT !.error = Null]
                               [] button = "Scan Again" -> handleRescan(qs.state)
                               [] OTHER -> handleCloseScanResult(qs.state))
    /\ Len(qs'.pending) <= MaxPending
    /\ UNCHANGED <<now, core, api, ctx, rt, guard, lb, sr>>

\* a click on the flashlight button
TorchClick ==
    /\ Page(qs.shown) = "scanner" /\ qs.shown.isScanning /\ qs.shown.torchSupported
    /\ Len(qs.pending) < MaxPending
    /\ qs' = commit(toggleTorch(qs), qs.state)
    /\ UNCHANGED <<now, core, api, ctx, rt, guard, lb, sr>>

\* the scanner on the page calls onUpdate with a result or with an error
ScannerUpdates ==
    /\ Page(qs.shown) = "scanner" /\ qs.shown.isScanning
    /\ \/ \E text \in ScannedTexts : qs' = [qs EXCEPT !.state = handleScanSuccess(@, text)]
       \/ \E expected \in BOOLEAN : qs' = [qs EXCEPT !.state = handleScanError(@, expected)]
    /\ UNCHANGED <<now, core, api, ctx, rt, guard, lb, sr>>

\* an await of a pending call settles
AwaitSettles ==
    /\ \E i \in 1..Len(qs.pending), ok \in BOOLEAN, torch \in BOOLEAN :
         qs' = afterAwait(qs, i, ok, torch)
    /\ UNCHANGED <<now, core, api, ctx, rt, guard, lb, sr>>

\* the state set outside a click is rendered
ScannerRenders ==
    /\ qs.shown # qs.state
    /\ qs' = commit(qs, qs.state)
    /\ Len(qs'.pending) <= MaxPending
    /\ UNCHANGED <<now, core, api, ctx, rt, guard, lb, sr>>

QRScannerNext ==
    \/ PermissionSettles \/ ScannerClick \/ TorchClick \/ ScannerUpdates
    \/ AwaitSettles \/ ScannerRenders

QRScannerSpec == Init /\ [][QRScannerNext]_vars

\* C30: in every state of the scanner torchEnabled is true only while
\* isScanning is, and a scanResult that is not null comes with isScanning
\* false, however the clicks, the scanner's updates and the awaits of
\* toggleTorch interleave
C30_TorchOnlyWhileScanning ==
    /\ qs.state.torchEnabled => qs.state.isScanning
    /\ qs.state.scanResult # Null => ~qs.state.isScanning

\* a scanResult that is not null comes with isScanning false
ResultMeansNotScanning == qs.state.scanResult # Null => ~qs.state.isScanning

====
